---- MODULE Spec2Model ----
(***************************************************************************)
(* Model of the projection engine of the retirement calculator (app.py):   *)
(* apply_liquidity_events, build_timeline and run_monte_carlo.             *)
(*                                                                         *)
(* Python floats are modelled as exact rationals <<n, d>> in lowest terms  *)
(* with d > 0, so that equal values are equal tuples.  Percent inputs are  *)
(* chosen so that the denominators stay small.                             *)
(***************************************************************************)
EXTENDS Integers, Sequences, FiniteSets, TLC

----------------------------------------------------------------------------
(* Exact arithmetic standing for float arithmetic.                         *)

Abs(x) == IF x < 0 THEN -x ELSE x

RECURSIVE Gcd(_, _)
Gcd(a, b) == IF b = 0 THEN a ELSE Gcd(b, a % b)

Norm(n, d) ==
    LET g == Gcd(Abs(n), Abs(d))
        s == IF d < 0 THEN -1 ELSE 1
    IN  <<(s * n) \div g, (s * d) \div g>>

Num(x) == <<x, 1>>
Zero == Num(0)
One == Num(1)
\* The common factors are taken out before multiplying, to keep the
\* intermediate integers small.
Add(a, b) ==
    LET g == Gcd(a[2], b[2])
    IN  Norm(a[1] * (b[2] \div g) + b[1] * (a[2] \div g),
             (a[2] \div g) * b[2])
Neg(a) == <<-a[1], a[2]>>
Sub(a, b) == Add(a, Neg(b))
Mul(a, b) ==
    LET g1 == Gcd(Abs(a[1]), b[2])
        g2 == Gcd(Abs(b[1]), a[2])
    IN  Norm((a[1] \div g1) * (b[1] \div g2),
             (a[2] \div g2) * (b[2] \div g1))
Div(a, b) == Mul(a, Norm(b[2], b[1]))
\* Comparisons look at the sign of the difference.
Lt(a, b) == Sub(a, b)[1] < 0
Le(a, b) == Sub(a, b)[1] <= 0
Min2(a, b) == IF Le(a, b) THEN a ELSE b
Hundred == Num(100)
Twelve == Num(12)

----------------------------------------------------------------------------
(* apply_liquidity_events                                                  *)

EmptyAcc == [net |-> Zero, labels |-> <<>>, event_taxes |-> Zero]

\* Lines 185-187: the annual aggregate of a recurring event.
Annualized(event) ==
    IF event.recurrence = "Monthly" THEN Mul(event.amount, Twelve)
    ELSE event.amount

\* A plausible slip: the sign of the amount is not tested before taxing.
ContributeTaxAnySign(acc, event, amount) ==
    [net |-> Add(acc.net, amount),
     labels |-> Append(acc.labels, event.label),
     event_taxes |->
        IF event.taxable
        THEN Add(acc.event_taxes, Mul(amount, Div(event.tax_rate, Hundred)))
        ELSE acc.event_taxes]

\* Lines 176-182 and 189-195: add one contributing amount.
Contribute(acc, event, amount) ==
    [net |-> Add(acc.net, amount),
     labels |-> Append(acc.labels, event.label),
     event_taxes |->
        IF event.taxable /\ Lt(Zero, amount)
        THEN Add(acc.event_taxes, Mul(amount, Div(event.tax_rate, Hundred)))
        ELSE acc.event_taxes]

\* A plausible slip: the disabled check is dropped.
EventStepNoEnabledCheck(age, event, acc) ==
    IF event.start_age <= age /\ age <= event.end_age
    THEN IF event.recurrence = "One-time"
         THEN IF age = event.start_age
              THEN Contribute(acc, event, event.amount)
              ELSE acc
         ELSE Contribute(acc, event, Annualized(event))
    ELSE acc

\* A plausible slip: the interval check guards the recurring branch only,
\* so a one-time event is added at every age.
EventStepOneTimeUnchecked(age, event, acc) ==
    IF ~event.enabled THEN acc
    ELSE IF event.recurrence = "One-time"
         THEN Contribute(acc, event, event.amount)
         ELSE IF event.start_age <= age /\ age <= event.end_age
              THEN Contribute(acc, event, Annualized(event))
              ELSE acc

\* A plausible slip: the interval is half-open.
EventStepHalfOpen(age, event, acc) ==
    IF ~event.enabled THEN acc
    ELSE IF event.start_age <= age /\ age < event.end_age
         THEN IF event.recurrence = "One-time"
              THEN IF age = event.start_age
                   THEN Contribute(acc, event, event.amount)
                   ELSE acc
              ELSE Contribute(acc, event, Annualized(event))
         ELSE acc

\* Lines 164-195: the body of the loop over the events.
EventStep(age, event, acc) ==
    IF ~event.enabled THEN acc
    ELSE IF event.start_age <= age /\ age <= event.end_age
         THEN IF event.recurrence = "One-time"
              THEN IF age = event.start_age
                   THEN Contribute(acc, event, event.amount)
                   ELSE acc
              ELSE Contribute(acc, event, Annualized(event))
         ELSE acc

RECURSIVE ApplyFrom(_, _, _, _)
ApplyFrom(age, evs, i, acc) ==
    IF i > Len(evs) THEN acc
    ELSE ApplyFrom(age, evs, i + 1, EventStep(age, evs[i], acc))

\* Lines 147-197: returns (net, labels, event_taxes).
apply_liquidity_events(age, evs) == ApplyFrom(age, evs, 1, EmptyAcc)

----------------------------------------------------------------------------
(* State.                                                                  *)

VARIABLES
    scenario,               \* the Scenario passed to the call
    liquidity_events,       \* the List[LiquidityEvent] passed to the call
    runs,                   \* run_monte_carlo's trial count
    seed,                   \* run_monte_carlo's seed
    pc,                     \* position of the running call
    age,                    \* loop variable of the age loop
    balance_nominal,
    cpi_index,
    prior_year_end_balance,
    first_shortfall_age,    \* NoneAge stands for None
    rows,                   \* build_timeline's rows
    metrics,                \* build_timeline's metrics (NoMetrics before return)
    returns,                \* run_monte_carlo's pre-generated grid
    run_idx,
    path,
    min_balance,
    terminal_values,
    min_balances,
    all_paths,
    mc_result,              \* run_monte_carlo's result ("none" before return)
    np_random_state,        \* numpy's process-wide generator: <<seed, draws>>
    trial_rows,             \* history: the years of the running trial
    mc_log,                 \* history: <<inputs, result>> of the returned calls
    calls,                  \* history: the number of run_monte_carlo calls
    tolerance,              \* solve_safe_withdrawal_rate's tolerance
    max_iterations,         \* solve_safe_withdrawal_rate's max_iterations
    low,
    high,
    best_rate,
    mid,
    caller,                 \* who called build_timeline: "solver" or "none"
    iteration,              \* the number of iterations completed
    debug_info,
    swr_debug,              \* st.session_state.swr_debug
    swr_result,             \* the solver's result
    timelines_built,        \* history: build_timeline calls of the solver
    trials,                 \* the locals of each trial, when trials interleave
    encl,                   \* <<lo, hi>>: whole dollars around balance_nominal
    page,                   \* st.session_state.page
    scenarios_file,         \* the saved scenarios in the JSON file
    session_saved,          \* st.session_state.saved_scenarios
    sidebar_message,        \* the Save Scenario handler's message
    planning_end_age,       \* show_liquidity_events_page's argument
    events_data,            \* st.session_state.events_data
    events_draft,           \* st.session_state.events_draft
    edited_df               \* the rows of the events editor

inputVars == <<scenario, liquidity_events, runs, seed>>
loopVars == <<age, balance_nominal, cpi_index, prior_year_end_balance>>
btVars == <<first_shortfall_age, rows, metrics>>
mcVars == <<returns, run_idx, path, min_balance, terminal_values,
            min_balances, all_paths, mc_result, np_random_state, trial_rows>>
callVars == <<mc_log, calls>>
swrVars == <<tolerance, max_iterations, low, high, best_rate, mid, caller,
             iteration, debug_info, swr_debug, swr_result, timelines_built>>
uiVars == <<page, scenarios_file, session_saved, sidebar_message,
           planning_end_age, events_data, events_draft, edited_df>>
restVars == <<trials, encl, uiVars>>
vars == <<inputVars, pc, loopVars, btVars, mcVars, callVars, swrVars,
          restVars>>

NoneAge == -1
NoMetrics == [returned |-> FALSE]
PctMethod == "Fixed % of prior-year end balance"
RealMethod == "Fixed real dollars"

----------------------------------------------------------------------------
(* build_timeline                                                          *)

\* A plausible slip: the retirement year still contributes.
ContributionsThroughRetirement(s, a) ==
    IF a <= s.retirement_age
    THEN IF s.contrib_cadence = "Monthly"
         THEN Mul(s.contrib_amount, Twelve)
         ELSE s.contrib_amount
    ELSE Zero

\* Lines 227-232 (and 363-368): contributions stop at retirement.
Contributions(s, a) ==
    IF a < s.retirement_age
    THEN IF s.contrib_cadence = "Monthly"
         THEN Mul(s.contrib_amount, Twelve)
         ELSE s.contrib_amount
    ELSE Zero

\* A plausible slip: the frequency multiplies the percentage withdrawal too.
WithdrawalsFrequencyOnPct(s, a, prior, cpi) ==
    IF a >= s.retirement_age
    THEN LET base == IF s.withdrawal_method = PctMethod
                     THEN Mul(prior, Div(s.withdrawal_pct, Hundred))
                     ELSE IF s.inflation_enabled
                          THEN Mul(s.withdrawal_real_amount, cpi)
                          ELSE s.withdrawal_real_amount
         IN  IF s.withdrawal_frequency = "Monthly"
             THEN Mul(base, Twelve)
             ELSE base
    ELSE Zero

\* Lines 237-254: withdrawals start at retirement.
Withdrawals(s, a, prior, cpi) ==
    IF a >= s.retirement_age
    THEN IF s.withdrawal_method = PctMethod
         THEN Mul(prior, Div(s.withdrawal_pct, Hundred))
         ELSE LET base == IF s.inflation_enabled
                          THEN Mul(s.withdrawal_real_amount, cpi)
                          ELSE s.withdrawal_real_amount
              IN  IF s.withdrawal_frequency = "Monthly"
                  THEN Mul(base, Twelve)
                  ELSE base
    ELSE Zero

\* Lines 220 and 339: the tax rate on withdrawals.
TaxRate(s) ==
    IF s.enable_taxes THEN Div(s.effective_tax_rate_pct, Hundred) ELSE Zero

\* A plausible slip: withdrawals are taxed whether or not taxes are enabled.
TaxesAlways(s, liquidity_event_taxes, withdrawals) ==
    Add(liquidity_event_taxes,
        Mul(withdrawals, Div(s.effective_tax_rate_pct, Hundred)))

\* Lines 259-262 (and 394-397).
Taxes(s, liquidity_event_taxes, withdrawals) ==
    IF s.enable_taxes
    THEN Add(liquidity_event_taxes, Mul(withdrawals, TaxRate(s)))
    ELSE liquidity_event_taxes

\* A plausible slip: no fee is charged.
FeesForgotten(s, start_balance) == Zero

\* Line 257 (and 392): fees on the start-of-year balance.
Fees(s, start_balance) == Mul(start_balance, Div(s.fee_pct, Hundred))

\* Lines 225-290: one TimelineRow.
TimelineRow(s, evs, a, bal, cpi, prior) ==
    LET start_balance == bal
        contributions == Contributions(s, a)
        ev == apply_liquidity_events(a, evs)
        withdrawals == Withdrawals(s, a, prior, cpi)
        fees == Fees(s, start_balance)
        taxes == Taxes(s, ev.event_taxes, withdrawals)
        balance_after_cashflows ==
            Sub(Sub(Sub(Add(Add(start_balance, contributions), ev.net),
                        withdrawals), fees), taxes)
        growth == Mul(balance_after_cashflows,
                      Div(s.nominal_return_pct, Hundred))
        end_balance_nominal == Add(balance_after_cashflows, growth)
        row_cpi == IF s.inflation_enabled /\ a = s.current_age
                   THEN One ELSE cpi
        end_balance_real == IF s.inflation_enabled
                            THEN Div(end_balance_nominal, row_cpi)
                            ELSE end_balance_nominal
    IN  [age |-> a,
         start_balance_nominal |-> start_balance,
         contributions |-> contributions,
         liquidity_net |-> ev.net,
         withdrawals |-> withdrawals,
         fees |-> fees,
         taxes |-> taxes,
         growth |-> growth,
         end_balance_nominal |-> end_balance_nominal,
         cpi_index |-> row_cpi,
         end_balance_real |-> end_balance_real]

\* Lines 299-300: the price index carried to the next age.
NextCpi(s, a, row_cpi) ==
    IF s.inflation_enabled /\ a # s.current_age
    THEN Mul(row_cpi, Add(One, Div(s.inflation_pct, Hundred)))
    ELSE row_cpi

\* A plausible slip: the marker is overwritten by every negative year.
NextShortfallLast(fsa, row) ==
    IF Lt(row.end_balance_nominal, Zero) THEN row.age ELSE fsa

\* Lines 292-294: the first-occurrence shortfall marker.
NextShortfall(fsa, row) ==
    IF fsa = NoneAge /\ Lt(row.end_balance_nominal, Zero)
    THEN row.age ELSE fsa

\* A plausible slip: range(current_age, end_age) leaves end_age out.
LoopDoneExclusive(s, a) == a >= s.end_age

\* Lines 224 and 360: range(current_age, end_age + 1) is exhausted.
LoopDone(s, a) == a > s.end_age

\* Lines 466-467: the copy of the scenario with the rate under test.
TestScenario(s, rate) == [s EXCEPT !.withdrawal_pct = rate]

\* The scenario build_timeline was called with: the caller's, or the
\* solver's copy of it (line 468).
BtScenario ==
    IF caller = "solver" THEN TestScenario(scenario, mid) ELSE scenario

\* A plausible slip: the balance before growth is carried to the next age.
BtIterateCarriesPreGrowth ==
    /\ pc = "bt_loop"
    /\ ~LoopDone(scenario, age)
    /\ LET row == TimelineRow(BtScenario, liquidity_events, age,
                              balance_nominal, cpi_index,
                              prior_year_end_balance)
       IN  /\ rows' = Append(rows, row)
           /\ first_shortfall_age' = NextShortfall(first_shortfall_age, row)
           /\ prior_year_end_balance' = row.end_balance_nominal
           /\ balance_nominal' = Sub(row.end_balance_nominal, row.growth)
           /\ cpi_index' = NextCpi(BtScenario, age, row.cpi_index)
    /\ age' = age + 1
    /\ UNCHANGED <<swrVars, callVars, restVars, inputVars, pc, metrics,
                   mcVars>>

\* Lines 224-300: one iteration of the age loop.
BtIterate ==
    /\ pc = "bt_loop"
    /\ ~LoopDone(scenario, age)
    /\ LET row == TimelineRow(BtScenario, liquidity_events, age,
                              balance_nominal, cpi_index,
                              prior_year_end_balance)
       IN  /\ rows' = Append(rows, row)
           /\ first_shortfall_age' = NextShortfall(first_shortfall_age, row)
           /\ prior_year_end_balance' = row.end_balance_nominal
           /\ balance_nominal' = row.end_balance_nominal
           /\ cpi_index' = NextCpi(BtScenario, age, row.cpi_index)
    /\ age' = age + 1
    /\ UNCHANGED <<swrVars, callVars, restVars, inputVars, pc, metrics,
                   mcVars>>

\* Lines 302-319: the frame and the metrics of a non-empty row list.
BtReturn ==
    /\ pc = "bt_loop"
    /\ LoopDone(scenario, age)
    /\ rows # <<>>
    /\ pc' = "bt_returned"
    /\ metrics' = [terminal_nominal |-> rows[Len(rows)].end_balance_nominal,
                   terminal_real |-> rows[Len(rows)].end_balance_real,
                   first_shortfall_age |-> first_shortfall_age]
    /\ UNCHANGED <<swrVars, callVars, restVars, inputVars,
                   loopVars, first_shortfall_age, rows, mcVars>>

\* Line 306: df.iloc[-1] of an empty frame raises IndexError.
BtRaise ==
    /\ pc = "bt_loop"
    /\ LoopDone(scenario, age)
    /\ rows = <<>>
    /\ pc' = "bt_raised"
    /\ UNCHANGED <<swrVars, callVars, restVars, inputVars, loopVars, btVars,
                   mcVars>>

NextBt == BtIterate \/ BtReturn \/ BtRaise

\* Lines 224-300 as a function: the rows from age a on, appended to acc.
RECURSIVE RowsFrom(_, _, _, _, _, _, _)
RowsFrom(s, evs, a, bal, cpi, prior, acc) ==
    IF LoopDone(s, a) THEN acc
    ELSE LET row == TimelineRow(s, evs, a, bal, cpi, prior)
         IN  RowsFrom(s, evs, a + 1, row.end_balance_nominal,
                      NextCpi(s, a, row.cpi_index), row.end_balance_nominal,
                      Append(acc, row))

\* Lines 212-300: the rows build_timeline produces for (s, evs).
TimelineRows(s, evs) ==
    RowsFrom(s, evs, s.current_age, s.current_balance, One,
             s.current_balance, <<>>)

----------------------------------------------------------------------------
(* build_timeline on balances of realistic size.  The exact fractions of   *)
(* the sections above outgrow the integers after a few years, so a balance *)
(* is held between two whole numbers of dollars <<lo, hi>>.  Every product *)
(* with a rate is rounded outward and widened by one dollar, which covers  *)
(* the rounding of a float64 operation (relative 2^-53) on these values.   *)

FloorOf(q) == q[1] \div q[2]
CeilOf(q) == -((-q[1]) \div q[2])

\* The whole part of x * n / d for d > 0, by quotient and remainder of x so
\* that no intermediate product outgrows x * n / d.
FloorMulDiv(x, n, d) == (x \div d) * n + (((x % d) * n) \div d)

\* x * (pct / 100.0) for a percentage pct >= 0, from below and from above.
PctDown(x, pct) == FloorMulDiv(x, pct[1], pct[2] * 100) - 1
PctUp(x, pct) == -FloorMulDiv(-x, pct[1], pct[2] * 100) + 1

\* A plausible slip: the fixed amount is withdrawn in every year, before
\* retirement too, whatever the method.
EnclWithdrawalsEveryYear(s, a, prior) ==
    LET amt == IF s.withdrawal_frequency = "Monthly"
               THEN Mul(s.withdrawal_real_amount, Twelve)
               ELSE s.withdrawal_real_amount
    IN  <<FloorOf(amt), CeilOf(amt)>>

\* Lines 237-254: the withdrawal.  The fixed-real branch is that of
\* inflation_enabled = False (line 251): the scenarios on which the
\* enclosures run index no withdrawal.
EnclWithdrawals(s, a, prior) ==
    IF a >= s.retirement_age
    THEN IF s.withdrawal_method = PctMethod
         THEN <<PctDown(prior[1], s.withdrawal_pct),
                PctUp(prior[2], s.withdrawal_pct)>>
         ELSE LET amt == IF s.withdrawal_frequency = "Monthly"
                         THEN Mul(s.withdrawal_real_amount, Twelve)
                         ELSE s.withdrawal_real_amount
              IN  <<FloorOf(amt), CeilOf(amt)>>
    ELSE <<0, 0>>

\* Lines 225-270: end_balance_nominal of the row of age a.
EnclRow(s, evs, a, bal, prior) ==
    LET contributions == Contributions(s, a)
        ev == apply_liquidity_events(a, evs)
        withdrawals == EnclWithdrawals(s, a, prior)
        fees == <<PctDown(bal[1], s.fee_pct), PctUp(bal[2], s.fee_pct)>>
        taxes ==
            IF s.enable_taxes
            THEN <<FloorOf(ev.event_taxes)
                     + PctDown(withdrawals[1], s.effective_tax_rate_pct),
                   CeilOf(ev.event_taxes)
                     + PctUp(withdrawals[2], s.effective_tax_rate_pct)>>
            ELSE <<FloorOf(ev.event_taxes), CeilOf(ev.event_taxes)>>
        after_lo == bal[1] + FloorOf(contributions) + FloorOf(ev.net)
                        - withdrawals[2] - fees[2] - taxes[2]
        after_hi == bal[2] + CeilOf(contributions) + CeilOf(ev.net)
                        - withdrawals[1] - fees[1] - taxes[1]
    IN  <<after_lo + PctDown(after_lo, s.nominal_return_pct),
          after_hi + PctUp(after_hi, s.nominal_return_pct)>>

\* Lines 224-300: one pass of the age loop; prior_year_end_balance and
\* balance_nominal are the same value (lines 296-297).
EnclIterate ==
    /\ pc = "encl_loop"
    /\ ~LoopDone(scenario, age)
    /\ encl' = EnclRow(scenario, liquidity_events, age, encl, encl)
    /\ age' = age + 1
    /\ UNCHANGED <<swrVars, callVars, inputVars, pc, balance_nominal,
                   cpi_index, prior_year_end_balance, btVars, mcVars,
                   trials, uiVars>>

\* Lines 302-320: the loop is over.
EnclReturn ==
    /\ pc = "encl_loop"
    /\ LoopDone(scenario, age)
    /\ pc' = "encl_returned"
    /\ UNCHANGED <<swrVars, callVars, inputVars, loopVars, btVars, mcVars,
                   restVars>>

NextEncl == EnclIterate \/ EnclReturn

----------------------------------------------------------------------------
(* run_monte_carlo                                                         *)

\* The k-th standard normal draw after np.random.seed(sd).  numpy's stream
\* is a fixed function of the seed and the position; it is represented by a
\* fixed table over {-1, 0, 1}.
StdNormal(sd, k) == ((sd + 2 * k + (k \div 2)) % 3) - 1

\* A plausible slip: the generator is left as the last call left it.
NpSeedKept(state, sd) == state

\* Line 333: np.random.seed(seed) resets the process-wide generator.
NpSeed(state, sd) == <<sd, 0>>

\* Line 344: the [runs x num_years] grid drawn from the generator in the
\* state st.
NormalGrid(s, st, n_runs, num_years) ==
    [r \in 0..(n_runs - 1) |->
        [y \in 0..(num_years - 1) |->
            Add(Div(s.nominal_return_pct, Hundred),
                Mul(Div(s.return_stdev_pct, Hundred),
                    Num(StdNormal(st[1], st[2] + r * num_years + y))))]]

\* Lines 373-389: the simulator's withdrawal.
McWithdrawals(s, a, prior, cpi) ==
    IF a >= s.retirement_age
    THEN LET base == IF s.withdrawal_method = PctMethod
                     THEN Mul(prior, Div(s.withdrawal_pct, Hundred))
                     ELSE Mul(s.withdrawal_real_amount, cpi)
         IN  IF s.withdrawal_frequency = "Monthly"
             THEN Mul(base, Twelve)
             ELSE base
    ELSE Zero

\* Lines 361-408: one simulated year of a trial.
McYearRow(s, evs, a, bal, cpi, prior, ret) ==
    LET start_balance == bal
        contributions == Contributions(s, a)
        ev == apply_liquidity_events(a, evs)
        withdrawals == McWithdrawals(s, a, prior, cpi)
        fees == Fees(s, start_balance)
        taxes == Taxes(s, ev.event_taxes, withdrawals)
        balance_after_cashflows ==
            Sub(Sub(Sub(Add(Add(start_balance, contributions), ev.net),
                        withdrawals), fees), taxes)
        growth == Mul(balance_after_cashflows, ret)
        end_balance_nominal == Add(balance_after_cashflows, growth)
    IN  [age |-> a,
         withdrawals |-> withdrawals,
         liquidity_net |-> ev.net,
         taxes |-> taxes,
         end_balance_nominal |-> end_balance_nominal,
         cpi_index |-> cpi,
         end_balance_real |-> Div(end_balance_nominal, cpi)]

NumYears(s) == s.end_age - s.current_age + 1

\* Lines 333-350: seed the generator and draw the grid.
McStart ==
    /\ pc = "mc_start"
    /\ NumYears(scenario) >= 0
    /\ LET st == NpSeed(np_random_state, seed)
       IN  /\ returns' = NormalGrid(scenario, st, runs, NumYears(scenario))
           /\ np_random_state' = <<st[1], st[2] + runs * NumYears(scenario)>>
    /\ terminal_values' = <<>>
    /\ min_balances' = <<>>
    /\ all_paths' = <<>>
    /\ run_idx' = 0
    /\ pc' = "mc_run"
    /\ UNCHANGED <<swrVars, callVars, restVars, inputVars, loopVars, btVars,
                   path,
                   min_balance, mc_result, trial_rows>>

\* Line 344: a negative dimension makes np.random.normal raise ValueError.
McRaise ==
    /\ pc = "mc_start"
    /\ NumYears(scenario) < 0
    /\ np_random_state' = NpSeed(np_random_state, seed)
    /\ pc' = "mc_raised"
    /\ UNCHANGED <<swrVars, callVars, restVars, inputVars,
                   loopVars, btVars, returns, run_idx, path,
                   min_balance, terminal_values, min_balances, all_paths,
                   mc_result, trial_rows>>

\* Lines 352-358: a trial starts.
McRunBegin ==
    /\ pc = "mc_run"
    /\ run_idx < runs
    /\ balance_nominal' = scenario.current_balance
    /\ cpi_index' = One
    /\ prior_year_end_balance' = scenario.current_balance
    /\ path' = <<>>
    /\ min_balance' = scenario.current_balance
    /\ age' = scenario.current_age
    /\ trial_rows' = <<>>
    /\ pc' = "mc_year"
    /\ UNCHANGED <<swrVars, callVars, restVars, inputVars,
                   btVars, returns, run_idx, terminal_values,
                   min_balances, all_paths, mc_result, np_random_state>>

\* Lines 360-412: one year of the running trial.
McYear ==
    /\ pc = "mc_year"
    /\ ~LoopDone(scenario, age)
    /\ LET row == McYearRow(scenario, liquidity_events, age, balance_nominal,
                            cpi_index, prior_year_end_balance,
                            returns[run_idx][age - scenario.current_age])
       IN  /\ min_balance' = Min2(min_balance, row.end_balance_nominal)
           /\ path' = Append(path, row.end_balance_real)
           /\ trial_rows' = Append(trial_rows, row)
           /\ prior_year_end_balance' = row.end_balance_nominal
           /\ balance_nominal' = row.end_balance_nominal
           /\ cpi_index' = Mul(cpi_index,
                               Add(One, Div(scenario.inflation_pct, Hundred)))
    /\ age' = age + 1
    /\ UNCHANGED <<swrVars, callVars, restVars, inputVars,
                   pc, btVars, returns, run_idx, terminal_values,
                   min_balances, all_paths, mc_result, np_random_state>>

\* Lines 414-416: the trial's results are recorded.
McRunEnd ==
    /\ pc = "mc_year"
    /\ LoopDone(scenario, age)
    /\ terminal_values' = Append(terminal_values, balance_nominal)
    /\ min_balances' = Append(min_balances, min_balance)
    /\ all_paths' = Append(all_paths, path)
    /\ run_idx' = run_idx + 1
    /\ pc' = "mc_run"
    /\ UNCHANGED <<swrVars, callVars, restVars, inputVars, loopVars, btVars,
                   returns,
                   path, min_balance, mc_result, np_random_state, trial_rows>>

RECURSIVE Insert(_, _)
Insert(x, sorted) ==
    IF sorted = <<>> THEN <<x>>
    ELSE IF Le(x, Head(sorted)) THEN <<x>> \o sorted
         ELSE <<Head(sorted)>> \o Insert(x, Tail(sorted))

RECURSIVE SortAsc(_)
SortAsc(sq) == IF sq = <<>> THEN <<>> ELSE Insert(Head(sq), SortAsc(Tail(sq)))

\* np.percentile, linear interpolation, of a non-empty sequence.
Percentile(sq, q) ==
    LET a == SortAsc(sq)
        n == Len(a)
        lo == ((n - 1) * q) \div 100
        gamma == Sub(Norm((n - 1) * q, 100), Num(lo))
        hi == IF lo + 1 < n THEN lo + 1 ELSE lo
    IN  Add(a[lo + 1], Mul(Sub(a[hi + 1], a[lo + 1]), gamma))

RECURSIVE CountNonNegative(_)
CountNonNegative(sq) ==
    IF sq = <<>> THEN 0
    ELSE (IF Le(Zero, Head(sq)) THEN 1 ELSE 0) + CountNonNegative(Tail(sq))

\* Lines 429-431: a percentile per simulated year across the trials.
PercentilePath(paths, q) ==
    [y \in 1..Len(paths[1]) |->
        Percentile([r \in 1..Len(paths) |-> paths[r][y]], q)]

\* A plausible slip: the trials are judged by their terminal balance, so a
\* trial that fell below zero and recovered counts as a success.
McReturnCountsTerminals ==
    /\ pc = "mc_run"
    /\ run_idx >= runs
    /\ mc_result' =
        [probability_no_shortfall |->
            Norm(CountNonNegative(terminal_values), Len(terminal_values)),
         median_terminal |-> Percentile(terminal_values, 50),
         p10_terminal |-> Percentile(terminal_values, 10),
         p90_terminal |-> Percentile(terminal_values, 90),
         p10_path |-> PercentilePath(all_paths, 10),
         p50_path |-> PercentilePath(all_paths, 50),
         p90_path |-> PercentilePath(all_paths, 90)]
    /\ pc' = "mc_returned"
    /\ UNCHANGED <<swrVars, callVars, restVars, inputVars,
                   loopVars, btVars, returns, run_idx, path,
                   min_balance, terminal_values, min_balances, all_paths,
                   np_random_state, trial_rows>>

\* Lines 418-441: the statistics over the trials.
McReturn ==
    /\ pc = "mc_run"
    /\ run_idx >= runs
    /\ mc_result' =
        [probability_no_shortfall |->
            Norm(CountNonNegative(min_balances), Len(min_balances)),
         median_terminal |-> Percentile(terminal_values, 50),
         p10_terminal |-> Percentile(terminal_values, 10),
         p90_terminal |-> Percentile(terminal_values, 90),
         p10_path |-> PercentilePath(all_paths, 10),
         p50_path |-> PercentilePath(all_paths, 50),
         p90_path |-> PercentilePath(all_paths, 90)]
    /\ pc' = "mc_returned"
    /\ UNCHANGED <<swrVars, callVars, restVars, inputVars,
                   loopVars, btVars, returns, run_idx, path,
                   min_balance, terminal_values, min_balances, all_paths,
                   np_random_state, trial_rows>>

\* Lines 353-416 as a function: a trial from age a on.
RECURSIVE TrialFrom(_, _, _, _, _, _, _, _)
TrialFrom(s, evs, rets, a, bal, cpi, prior, acc) ==
    IF LoopDone(s, a)
    THEN [terminal |-> bal, min_balance |-> acc.min_balance, path |-> acc.path]
    ELSE LET row == McYearRow(s, evs, a, bal, cpi, prior,
                              rets[a - s.current_age])
         IN  TrialFrom(s, evs, rets, a + 1, row.end_balance_nominal,
                       Mul(cpi, Add(One, Div(s.inflation_pct, Hundred))),
                       row.end_balance_nominal,
                       [min_balance |->
                            Min2(acc.min_balance, row.end_balance_nominal),
                        path |-> Append(acc.path, row.end_balance_real)])

\* Lines 353-416: the trial that reads the row rets of the grid.
Trial(s, evs, rets) ==
    TrialFrom(s, evs, rets, s.current_age, s.current_balance, One,
              s.current_balance,
              [min_balance |-> s.current_balance, path |-> <<>>])

NextMc == McStart \/ McRaise \/ McRunBegin \/ McYear \/ McRunEnd \/ McReturn

----------------------------------------------------------------------------
(* run_monte_carlo with its trials run in any order: the body of the loop  *)
(* of line 352, each trial on locals of its own.                           *)

\* A trial that has not started.
NotStarted ==
    [status |-> "idle", age |-> 0, balance_nominal |-> Zero,
     cpi_index |-> One, prior_year_end_balance |-> Zero, path |-> <<>>,
     min_balance |-> Zero]

\* Lines 353-358: the locals a trial starts with.
TrialStart(s) ==
    [status |-> "running", age |-> s.current_age,
     balance_nominal |-> s.current_balance, cpi_index |-> One,
     prior_year_end_balance |-> s.current_balance, path |-> <<>>,
     min_balance |-> s.current_balance]

\* A plausible slip: every trial reads the first row of the grid.
GridRowFirst(rets, k) == rets[0]

\* Line 404: trial k reads row k of the grid, returns[run_idx, year_idx].
GridRow(rets, k) == rets[k]

\* Lines 353-358 for trial k.
ParBegin(k) ==
    /\ pc = "mc_run"
    /\ trials[k].status = "idle"
    /\ trials' = [trials EXCEPT ![k] = TrialStart(scenario)]
    /\ UNCHANGED <<swrVars, callVars, inputVars, pc, loopVars, btVars,
                   mcVars, encl, uiVars>>

\* Lines 360-412 for trial k: one year on the trial's own locals.
ParYear(k) ==
    /\ pc = "mc_run"
    /\ trials[k].status = "running"
    /\ ~LoopDone(scenario, trials[k].age)
    /\ LET t == trials[k]
           row == McYearRow(scenario, liquidity_events, t.age,
                            t.balance_nominal, t.cpi_index,
                            t.prior_year_end_balance,
                            GridRow(returns, k)[t.age - scenario.current_age])
       IN  trials' = [trials EXCEPT ![k] =
                [status |-> "running",
                 age |-> t.age + 1,
                 balance_nominal |-> row.end_balance_nominal,
                 cpi_index |->
                    Mul(t.cpi_index,
                        Add(One, Div(scenario.inflation_pct, Hundred))),
                 prior_year_end_balance |-> row.end_balance_nominal,
                 path |-> Append(t.path, row.end_balance_real),
                 min_balance |->
                    Min2(t.min_balance, row.end_balance_nominal)]]
    /\ UNCHANGED <<swrVars, callVars, inputVars, pc, loopVars, btVars,
                   mcVars, encl, uiVars>>

\* Lines 414-416 for trial k: its results join the lists.
ParEnd(k) ==
    /\ pc = "mc_run"
    /\ trials[k].status = "running"
    /\ LoopDone(scenario, trials[k].age)
    /\ terminal_values' = Append(terminal_values, trials[k].balance_nominal)
    /\ min_balances' = Append(min_balances, trials[k].min_balance)
    /\ all_paths' = Append(all_paths, trials[k].path)
    /\ run_idx' = run_idx + 1
    /\ trials' = [trials EXCEPT ![k].status = "done"]
    /\ UNCHANGED <<swrVars, callVars, inputVars, pc, loopVars, btVars,
                   returns, path, min_balance, mc_result, np_random_state,
                   trial_rows, encl, uiVars>>

NextMcAnyOrder ==
    \/ McStart
    \/ McRaise
    \/ \E k \in DOMAIN trials : ParBegin(k)
    \/ \E k \in DOMAIN trials : ParYear(k)
    \/ \E k \in DOMAIN trials : ParEnd(k)
    \/ McReturn

\* The inputs of the call under way.
CallInputs ==
    [scenario |-> scenario, liquidity_events |-> liquidity_events,
     runs |-> runs, seed |-> seed]

----------------------------------------------------------------------------
(* solve_safe_withdrawal_rate                                              *)

\* The values of st.session_state.swr_debug and of the solver's result.
Absent == [present |-> FALSE, trace |-> <<>>]
Stored(trace) == [present |-> TRUE, trace |-> trace]
Pending == [kind |-> "pending", rate |-> Zero]
ReturnedNone == [kind |-> "None", rate |-> Zero]
Returned(rate) == [kind |-> "float", rate |-> rate]

\* Line 458: the upper end of the searched rates, in percent.
SearchHigh == Num(20)

\* Line 465.
Midpoint(lo, hi) == Div(Add(lo, hi), Num(2))

\* Line 470: df['end_balance_nominal'].min() of a non-empty row list.
MinEndBalance(rws) ==
    CHOOSE m \in {rws[i].end_balance_nominal : i \in 1..Len(rws)} :
        \A j \in 1..Len(rws) : Le(m, rws[j].end_balance_nominal)

\* Lines 466-470 as a function: the minimum balance of the timeline at a
\* rate.
MinBalanceAt(s, evs, rate) ==
    MinEndBalance(TimelineRows(TestScenario(s, rate), evs))

\* A plausible slip: the halves are exchanged.
NarrowSwapped(lo, hi, best, rate, min_bal) ==
    IF Le(Zero, min_bal)
    THEN [low |-> lo, high |-> rate, best_rate |-> rate, result |-> "solvent"]
    ELSE [low |-> rate, high |-> hi, best_rate |-> best, result |-> "negative"]

\* A plausible slip: a solvent midpoint raises low but is not recorded.
NarrowKeepsBest(lo, hi, best, rate, min_bal) ==
    IF Le(Zero, min_bal)
    THEN [low |-> rate, high |-> hi, best_rate |-> best, result |-> "solvent"]
    ELSE [low |-> lo, high |-> rate, best_rate |-> best, result |-> "negative"]

\* Lines 472-479: keep the half that can still hold the answer.
Narrow(lo, hi, best, rate, min_bal) ==
    IF Le(Zero, min_bal)
    THEN [low |-> rate, high |-> hi, best_rate |-> rate, result |-> "solvent"]
    ELSE [low |-> lo, high |-> rate, best_rate |-> best, result |-> "negative"]

\* A plausible slip: the width is compared with <=.
ConvergedInclusive(lo, hi, tol) == Le(Sub(hi, lo), tol)

\* Line 487.
Converged(lo, hi, tol) == Lt(Sub(hi, lo), tol)

\* A plausible slip: the trace is stored before the method is tested.
SwrNotApplicableStoresTrace ==
    /\ pc = "swr_start"
    /\ scenario.withdrawal_method # PctMethod
    /\ swr_debug' = Stored(<<>>)
    /\ swr_result' = ReturnedNone
    /\ pc' = "swr_returned"
    /\ UNCHANGED <<inputVars, loopVars, btVars, mcVars, callVars, restVars,
                   tolerance,
                   max_iterations, low, high, best_rate, mid, caller,
                   iteration, debug_info, timelines_built>>

\* Lines 455-456: the method is not the percentage method.
SwrNotApplicable ==
    /\ pc = "swr_start"
    /\ scenario.withdrawal_method # PctMethod
    /\ swr_result' = ReturnedNone
    /\ pc' = "swr_returned"
    /\ UNCHANGED <<inputVars, loopVars, btVars, mcVars, callVars, restVars,
                   tolerance,
                   max_iterations, low, high, best_rate, mid, caller,
                   iteration, debug_info, swr_debug, timelines_built>>

\* Lines 458-461: the search starts.
SwrBegin ==
    /\ pc = "swr_start"
    /\ scenario.withdrawal_method = PctMethod
    /\ low' = Zero
    /\ high' = SearchHigh
    /\ best_rate' = Zero
    /\ debug_info' = <<>>
    /\ iteration' = 0
    /\ pc' = "swr_loop"
    /\ UNCHANGED <<inputVars, loopVars, btVars, mcVars, callVars, restVars,
                   tolerance,
                   max_iterations, mid, caller, swr_debug, swr_result,
                   timelines_built>>

\* A plausible slip: the rate under test is written to the caller's
\* scenario instead of a copy.
SwrCallTimelineInPlace ==
    /\ pc = "swr_loop"
    /\ iteration < max_iterations
    /\ pc' = "bt_loop"
    /\ mid' = Midpoint(low, high)
    /\ scenario' = TestScenario(scenario, Midpoint(low, high))
    /\ caller' = "solver"
    /\ age' = scenario.current_age
    /\ balance_nominal' = scenario.current_balance
    /\ cpi_index' = One
    /\ prior_year_end_balance' = scenario.current_balance
    /\ first_shortfall_age' = NoneAge
    /\ rows' = <<>>
    /\ metrics' = NoMetrics
    /\ UNCHANGED <<liquidity_events, runs, seed, mcVars, callVars, restVars,
                   tolerance, max_iterations, low, high, best_rate,
                   iteration, debug_info, swr_debug, swr_result,
                   timelines_built>>

\* Lines 464-468: an iteration starts and calls build_timeline on the copy
\* with the midpoint rate (lines 212-222 have run).
SwrCallTimeline ==
    /\ pc = "swr_loop"
    /\ iteration < max_iterations
    /\ pc' = "bt_loop"
    /\ mid' = Midpoint(low, high)
    /\ caller' = "solver"
    /\ age' = scenario.current_age
    /\ balance_nominal' = scenario.current_balance
    /\ cpi_index' = One
    /\ prior_year_end_balance' = scenario.current_balance
    /\ first_shortfall_age' = NoneAge
    /\ rows' = <<>>
    /\ metrics' = NoMetrics
    /\ UNCHANGED <<inputVars, mcVars, callVars, restVars, tolerance,
                   max_iterations,
                   low, high, best_rate, iteration, debug_info, swr_debug,
                   swr_result, timelines_built>>

\* Lines 470-488: build_timeline has returned to the solver; the trace line
\* is kept as the values it is formatted from.
SwrIterate ==
    /\ pc = "bt_returned"
    /\ caller = "solver"
    /\ LET min_bal == MinEndBalance(rows)
           n == Narrow(low, high, best_rate, mid, min_bal)
       IN  /\ low' = n.low
           /\ high' = n.high
           /\ best_rate' = n.best_rate
           /\ debug_info' = Append(debug_info,
                                [iter |-> iteration + 1, mid |-> mid,
                                 min_balance |-> min_bal,
                                 result |-> n.result])
           /\ pc' = IF Converged(n.low, n.high, tolerance)
                    THEN "swr_store" ELSE "swr_loop"
    /\ iteration' = iteration + 1
    /\ timelines_built' = timelines_built + 1
    /\ UNCHANGED <<inputVars, loopVars, btVars, mcVars, callVars, restVars,
                   tolerance,
                   max_iterations, mid, caller, swr_debug, swr_result>>

\* Line 468: build_timeline has raised (line 306), and the solver with it.
SwrRaise ==
    /\ pc = "bt_raised"
    /\ caller = "solver"
    /\ pc' = "swr_raised"
    /\ UNCHANGED <<inputVars, loopVars, btVars, mcVars, callVars, restVars,
                   swrVars>>

\* Lines 490-496: the loop has ended (break, or range exhausted); the trace
\* is stored in the session state and the best rate returned.
SwrReturn ==
    /\ \/ pc = "swr_store"
       \/ pc = "swr_loop" /\ iteration >= max_iterations
    /\ swr_debug' = Stored(debug_info)
    /\ swr_result' = Returned(best_rate)
    /\ pc' = "swr_returned"
    /\ UNCHANGED <<inputVars, loopVars, btVars, mcVars, callVars, restVars,
                   tolerance,
                   max_iterations, low, high, best_rate, mid, caller,
                   iteration, debug_info, timelines_built>>

NextSolve ==
    \/ SwrNotApplicable \/ SwrBegin \/ SwrCallTimeline \/ NextBt
    \/ SwrIterate \/ SwrRaise \/ SwrReturn

----------------------------------------------------------------------------
(* The independent reference of test_swr.py.                               *)

\* Lines 23-52 of test_swr.py: the years left of simulate_portfolio's loop.
RECURSIVE SimulateFrom(_, _, _, _, _, _, _)
SimulateFrom(balance, min_bal, prior, left, w_rate, r_rate, f_rate) ==
    IF left <= 0 THEN <<balance, min_bal>>
    ELSE LET start_balance == balance
             withdrawal == Mul(prior, w_rate)
             fees == Mul(start_balance, f_rate)
             balance_after_cashflows ==
                Sub(Sub(start_balance, withdrawal), fees)
             growth == Mul(balance_after_cashflows, r_rate)
             end == Add(balance_after_cashflows, growth)
         IN  IF Lt(end, min_bal)
             THEN SimulateFrom(end, end, end, left - 1, w_rate, r_rate,
                               f_rate)
             ELSE SimulateFrom(end, min_bal, end, left - 1, w_rate, r_rate,
                               f_rate)

\* Lines 7-52 of test_swr.py: <<final_balance, minimum_balance>>.
simulate_portfolio(initial_balance, years, w_rate, r_rate, f_rate) ==
    SimulateFrom(initial_balance, initial_balance, initial_balance, years,
                 w_rate, r_rate, f_rate)

\* Lines 67-68 of test_swr.py: the search starts between 0% and 20%.
ReferenceStart == [low |-> Zero, high |-> <<1, 5>>, best_rate |-> Zero]

\* Lines 75-95 of test_swr.py: one iteration of find_safe_withdrawal_rate
\* from the bounds st; p holds the arguments; stop is the break of line 95.
ReferenceIterate(st, p) ==
    LET rate == Div(Add(st.low, st.high), Num(2))
        sim == simulate_portfolio(p.initial_balance, p.years, rate,
                                  p.return_rate, p.fee_rate)
        ok == Le(Zero, sim[2])
        lo2 == IF ok THEN rate ELSE st.low
        hi2 == IF ok THEN st.high ELSE rate
    IN  [low |-> lo2,
         high |-> hi2,
         best_rate |-> IF ok THEN rate ELSE st.best_rate,
         mid |-> rate,
         result |-> IF ok THEN "SOLVENT" ELSE "NEGATIVE",
         stop |-> Lt(Sub(hi2, lo2), p.tolerance)]

----------------------------------------------------------------------------
(* Inputs.                                                                 *)

MaxAge == 3
MaxEvents == 2
MaxRuns == 2
MaxIter == 2
MaxCalls == 3

BOOL == {TRUE, FALSE}
Cadences == {"Annual", "Monthly"}
Methods == {PctMethod, RealMethod}

\* Any ages, the orderings current <= retirement <= end and their
\* violations included.
AgeTriples ==
    {t \in (1..(MaxAge - 1)) \X (1..MaxAge) \X (0..MaxAge) : TRUE}

MkScenario(t, bal, cad, ret, sd, infl, infl_on, fee, meth, wpct, wreal, freq, tax_on) ==
    [current_age |-> t[1],
     retirement_age |-> t[2],
     end_age |-> t[3],
     current_balance |-> bal,
     contrib_amount |-> Num(10),
     contrib_cadence |-> cad,
     nominal_return_pct |-> ret,
     return_stdev_pct |-> sd,
     inflation_pct |-> infl,
     fee_pct |-> fee,
     withdrawal_method |-> meth,
     withdrawal_pct |-> wpct,
     withdrawal_real_amount |-> wreal,
     withdrawal_frequency |-> freq,
     enable_taxes |-> tax_on,
     effective_tax_rate_pct |-> Num(50),
     inflation_enabled |-> infl_on]

\* The scenarios of the deterministic projection.
Scenarios ==
    {MkScenario(t, Num(100), cad, ret, Zero, Num(50), infl_on, fee, meth,
                wpct, Num(40), freq, tax_on) :
        t \in AgeTriples, cad \in Cadences, ret \in {Zero, Num(50)},
        infl_on \in BOOL, fee \in {Zero, Num(50)}, meth \in Methods,
        wpct \in {Num(50), Num(150)}, freq \in Cadences, tax_on \in BOOL}

\* The scenarios used where the events vary.
EventScenarios ==
    {MkScenario(t, Num(100), "Annual", Num(50), Num(50), Num(50), TRUE,
                Zero, meth, Num(50), Num(40), "Annual", tax_on) :
        t \in {u \in AgeTriples : u[2] = 2}, meth \in Methods,
        tax_on \in BOOL}

MkEvent(lbl, iv, amt, rec, en, taxable) ==
    [type |-> IF amt < 0 THEN "Debit" ELSE "Credit",
     label |-> lbl,
     start_age |-> iv[1],
     end_age |-> iv[2],
     amount |-> Num(amt),
     recurrence |-> rec,
     enabled |-> en,
     taxable |-> taxable,
     tax_rate |-> Num(50)]

Recurrences == {"One-time", "Annual", "Monthly"}
Intervals == {iv \in (1..MaxAge) \X (1..MaxAge) : iv[1] <= iv[2]}

\* The event that accompanies the varied one.
Background ==
    {MkEvent("Gift", <<1, 2>>, 60, "Annual", TRUE, TRUE)}

\* The varied event.
Foreground ==
    {MkEvent("Event", iv, amt, rec, en, taxable) :
        iv \in Intervals, amt \in {40, -40}, rec \in Recurrences,
        en \in BOOL, taxable \in BOOL}

RECURSIVE SeqsUpTo(_, _)
SeqsUpTo(S, n) ==
    IF n = 0 THEN {<<>>}
    ELSE LET shorter == SeqsUpTo(S, n - 1)
         IN  shorter \cup {Append(sq, x) : sq \in shorter, x \in S}

\* Event lists of at most MaxEvents events, one of them from F, first or
\* last.
ListsAround(F) ==
    {<<>>} \cup
    {<<f>> \o bg : f \in F, bg \in SeqsUpTo(Background, MaxEvents - 1)}
    \cup
    {bg \o <<f>> : f \in F, bg \in SeqsUpTo(Background, MaxEvents - 1)}

EventLists == ListsAround(Foreground)

\* The lists of the calls of both simulators.
CallEventLists ==
    ListsAround({f \in Foreground : f.taxable /\ f.recurrence # "Annual"})

\* The event lists of the deterministic projection.
FewEventLists ==
    {<<>>,
     <<MkEvent("Pension", <<2, MaxAge>>, 10, "Monthly", TRUE, TRUE)>>,
     <<MkEvent("Car", <<2, 2>>, -300, "One-time", TRUE, FALSE),
       MkEvent("Bonus", <<1, MaxAge>>, 250, "Annual", TRUE, TRUE)>>}

\* Lines 447-448: the solver's defaults.
DefaultTolerance == <<1, 100>>
DefaultMaxIterations == 50

\* No solver call is under way.
SolverIdle ==
    /\ tolerance = DefaultTolerance
    /\ max_iterations = DefaultMaxIterations
    /\ swr_debug = [present |-> FALSE, trace |-> <<>>]

\* Nothing but the engine's calls is under way.
\* Line 530: load_scenarios returns {} when there is no file.
NoScenarios == [n \in {} |-> "v1"]

\* The pages of the interface are not in use.
UiIdle ==
    /\ page = "dashboard"
    /\ scenarios_file = NoScenarios
    /\ session_saved = [present |-> FALSE, dict |-> NoScenarios]
    /\ sidebar_message = "none"
    /\ planning_end_age = 0
    /\ events_data = <<>>
    /\ events_draft = <<>>
    /\ edited_df = <<>>

RestIdle ==
    /\ trials = <<>>
    /\ encl = <<0, 0>>
    /\ UiIdle

InitLocals ==
    /\ age = scenario.current_age
    /\ balance_nominal = scenario.current_balance
    /\ cpi_index = One
    /\ prior_year_end_balance = scenario.current_balance
    /\ first_shortfall_age = NoneAge
    /\ rows = <<>>
    /\ metrics = NoMetrics
    /\ returns = <<>>
    /\ run_idx = 0
    /\ path = <<>>
    /\ min_balance = scenario.current_balance
    /\ terminal_values = <<>>
    /\ min_balances = <<>>
    /\ all_paths = <<>>
    /\ mc_result = "none"
    /\ np_random_state = <<0, 0>>
    /\ trial_rows = <<>>
    /\ mc_log = {}
    /\ calls = 0
    /\ low = Zero
    /\ high = Zero
    /\ best_rate = Zero
    /\ mid = Zero
    /\ caller = "none"
    /\ iteration = 0
    /\ debug_info = <<>>
    /\ swr_result = [kind |-> "pending", rate |-> Zero]
    /\ timelines_built = 0

\* build_timeline is called (lines 212-222 have run).
Init ==
    /\ scenario \in Scenarios
    /\ liquidity_events \in FewEventLists
    /\ runs = 1
    /\ seed = 42
    /\ pc = "bt_loop"
    /\ InitLocals
    /\ RestIdle
    /\ SolverIdle

\* build_timeline is called on a list of events.
InitEvents ==
    /\ scenario \in EventScenarios
    /\ liquidity_events \in EventLists
    /\ runs = 1
    /\ seed = 42
    /\ pc = "bt_loop"
    /\ InitLocals
    /\ RestIdle
    /\ SolverIdle

\* build_timeline or run_monte_carlo is called.
InitCalls ==
    /\ scenario \in {sc \in EventScenarios : ~sc.enable_taxes}
    /\ liquidity_events \in CallEventLists
    /\ runs \in 1..MaxRuns
    /\ seed = 42
    /\ pc \in {"bt_loop", "mc_start"}
    /\ pc = "bt_loop" => runs = 1
    /\ InitLocals
    /\ RestIdle
    /\ SolverIdle

Next == NextBt

Spec == Init /\ [][Next]_vars

SpecEvents == InitEvents /\ [][Next]_vars

NextCalls == NextBt \/ NextMc

SpecCalls == InitCalls /\ [][NextCalls]_vars

\* The scenarios of the simulator: every horizon, both methods and
\* frequencies, inflation on and off, with and without volatility.
McScenarios ==
    {MkScenario(t, Num(100), "Annual", Num(50), sd, Num(50), infl_on, Zero,
                meth, Num(50), Num(40), freq, FALSE) :
        t \in AgeTriples, sd \in {Zero, Num(50)}, infl_on \in BOOL,
        meth \in Methods, freq \in Cadences}

\* Nothing; a debit that the first year's return decides; a debit made up
\* for by a later credit.
McEventLists ==
    {<<>>,
     <<MkEvent("Bill", <<2, 2>>, -150, "One-time", TRUE, FALSE)>>,
     <<MkEvent("Loan", <<1, 1>>, -300, "One-time", TRUE, FALSE),
       MkEvent("Sale", <<2, 2>>, 400, "One-time", TRUE, FALSE)>>}

\* run_monte_carlo is called.
InitMc ==
    /\ scenario \in McScenarios
    /\ liquidity_events \in McEventLists
    /\ runs \in 1..MaxRuns
    /\ seed = 42
    /\ pc = "mc_start"
    /\ InitLocals
    /\ RestIdle
    /\ SolverIdle

SpecMc == InitMc /\ [][NextMc]_vars

\* The simulator reads neither inflation_enabled nor, for the order of its
\* trials, the withdrawal frequency: one value of each.
AnyOrderScenarios ==
    {sc \in McScenarios :
        sc.inflation_enabled /\ sc.withdrawal_frequency = "Annual"}

\* run_monte_carlo is called and its trials run in any order.
InitMcAnyOrder ==
    /\ scenario \in AnyOrderScenarios
    /\ liquidity_events \in McEventLists
    /\ runs \in 1..MaxRuns
    /\ seed = 42
    /\ pc = "mc_start"
    /\ InitLocals
    /\ SolverIdle
    /\ trials = [k \in 0..(runs - 1) |-> NotStarted]
    /\ encl = <<0, 0>>
    /\ UiIdle

SpecMcAnyOrder == InitMcAnyOrder /\ [][NextMcAnyOrder]_vars

\* Lines 122-131: the configuration constants.
CURRENT_AGE == 30
RETIREMENT_AGE == 65
END_AGE == 95
CURRENT_BALANCE == 100000
CONTRIB_AMOUNT == 500
WITHDRAWAL_REAL_AMOUNT == 50000

\* The default scenario: $500 a month, 7% return, 0.5% fee, 4% withdrawal.
DefaultScenario ==
    [MkScenario(<<CURRENT_AGE, RETIREMENT_AGE, END_AGE>>,
                Num(CURRENT_BALANCE), "Monthly", Num(7), Num(15), Num(3),
                TRUE, <<1, 2>>, PctMethod, Num(4),
                Num(WITHDRAWAL_REAL_AMOUNT), "Annual", FALSE)
        EXCEPT !.contrib_amount = Num(CONTRIB_AMOUNT),
               !.effective_tax_rate_pct = Num(20)]

\* The default scenario and scenarios around it: an empty account, fixed
\* withdrawals (not indexed), taxes on withdrawals.
ScenariosAroundDefault ==
    {[DefaultScenario EXCEPT !.current_balance = bal,
                             !.withdrawal_method = meth,
                             !.inflation_enabled = (meth = PctMethod),
                             !.enable_taxes = tax_on] :
        bal \in {Zero, Num(CURRENT_BALANCE)}, meth \in Methods,
        tax_on \in BOOL}

\* build_timeline is called on a scenario of realistic size.
InitEncl ==
    /\ scenario \in ScenariosAroundDefault
    /\ liquidity_events = <<>>
    /\ runs = 1
    /\ seed = 42
    /\ pc = "encl_loop"
    /\ InitLocals
    /\ SolverIdle
    /\ trials = <<>>
    /\ encl = <<FloorOf(scenario.current_balance),
                CeilOf(scenario.current_balance)>>
    /\ UiIdle

SpecEncl == InitEncl /\ [][NextEncl]_vars

\* The scenarios and seeds of a sequence of calls.
RepeatScenarios ==
    {sc \in McScenarios :
        /\ sc.return_stdev_pct = Num(50)
        /\ sc.inflation_enabled
        /\ sc.retirement_age = 2
        /\ <<sc.current_age, sc.end_age>> \in {<<1, 2>>, <<2, 0>>}
        /\ sc.withdrawal_frequency = "Annual"}

Seeds == {42, 43}

\* Lines 1536-1554 of main, run again at every interaction:
\* run_monte_carlo has returned and is called again, with the same or with
\* other inputs.
McCallAgain ==
    /\ pc = "mc_returned"
    /\ calls + 1 < MaxCalls
    /\ mc_log' = mc_log \cup {[inputs |-> CallInputs, result |-> mc_result]}
    /\ calls' = calls + 1
    /\ scenario' \in RepeatScenarios
    /\ runs' \in {1, MaxRuns}
    /\ seed' \in Seeds
    /\ pc' = "mc_start"
    /\ UNCHANGED <<swrVars, restVars, liquidity_events, loopVars, btVars,
                   mcVars>>

InitMcCalls ==
    /\ scenario \in RepeatScenarios
    /\ liquidity_events
        = <<MkEvent("Bill", <<2, 2>>, -150, "One-time", TRUE, FALSE)>>
    /\ runs \in {1, MaxRuns}
    /\ seed \in Seeds
    /\ pc = "mc_start"
    /\ InitLocals
    /\ RestIdle
    /\ SolverIdle

NextMcCalls == NextMc \/ McCallAgain

SpecMcCalls == InitMcCalls /\ [][NextMcCalls]_vars

\* The scenarios handed to the solver: every horizon, both methods.
SolveScenarios ==
    {MkScenario(t, Num(100), "Annual", ret, Zero, Num(50), TRUE, Zero, meth,
                Num(50), Num(40), "Annual", tax_on) :
        t \in AgeTriples, ret \in {Zero, Num(50)}, meth \in Methods,
        tax_on \in BOOL}

\* Nothing; a yearly debit that leaves room for a withdrawal in the first
\* year; a debit no rate survives; a debit made up for by a credit.
SolveEventLists ==
    {<<>>,
     <<MkEvent("Roof", <<1, MaxAge>>, -90, "Annual", TRUE, FALSE)>>,
     <<MkEvent("Loss", <<1, MaxAge>>, -40, "Monthly", TRUE, FALSE)>>,
     <<MkEvent("Roof", <<1, MaxAge>>, -90, "Annual", TRUE, FALSE),
       MkEvent("Bonus", <<2, MaxAge>>, 250, "Annual", TRUE, TRUE)>>}

\* A trace left in the session state by an earlier call.
StaleTrace ==
    <<[iter |-> 1, mid |-> Num(10), min_balance |-> Zero,
       result |-> "solvent"]>>

\* solve_safe_withdrawal_rate is called.  The default tolerance is paired
\* with the horizons of at most one year, a coarse one with every horizon.
InitSolve ==
    /\ scenario \in SolveScenarios
    /\ liquidity_events \in SolveEventLists
    /\ runs = 1
    /\ seed = 42
    /\ tolerance \in {DefaultTolerance, Num(10)}
    /\ tolerance = DefaultTolerance
            => scenario.end_age <= scenario.current_age
    /\ max_iterations \in {0, MaxIter, DefaultMaxIterations}
    /\ swr_debug \in {Absent, Stored(StaleTrace)}
    /\ pc = "swr_start"
    /\ InitLocals
    /\ RestIdle

SpecSolve == InitSolve /\ [][NextSolve]_vars

\* Scenarios of someone already retired, with fees and losses large enough
\* for a rate to fail without any event, and scenarios that are not of that
\* kind.
RetiredScenarios ==
    {MkScenario(<<t[1], t[1], t[2]>>, bal, "Annual", ret, Zero, Num(50),
                TRUE, fee, meth, Num(50), Num(40), "Annual", FALSE) :
        t \in (1..2) \X (0..MaxAge), bal \in {Zero, Num(100)},
        ret \in {Num(50), Num(-150)}, fee \in {Zero, Num(90), Num(95)},
        meth \in Methods}

\* solve_safe_withdrawal_rate is called for someone already retired.
InitSolveRetired ==
    /\ scenario \in RetiredScenarios
    /\ liquidity_events = <<>>
    /\ runs = 1
    /\ seed = 42
    /\ tolerance \in {DefaultTolerance, Num(10)}
    /\ tolerance = DefaultTolerance
            => scenario.end_age <= scenario.current_age
    /\ max_iterations \in {0, MaxIter, DefaultMaxIterations}
    /\ swr_debug = Absent
    /\ pc = "swr_start"
    /\ InitLocals
    /\ RestIdle

SpecSolveRetired == InitSolveRetired /\ [][NextSolve]_vars

\* A call that is under way goes on: weak fairness of NextSolve, with its
\* enabling condition written out.  NextSolve is enabled exactly until the
\* call has ended, and each of its steps changes pc or age.
SpecSolveFair ==
    SpecSolve /\ ([]<>(pc \in {"swr_returned", "swr_raised"})
                    \/ []<><<NextSolve>>_<<pc, age>>)

----------------------------------------------------------------------------
(* Properties of build_timeline.                                           *)

RowIdx == 1..Len(rows)

\* C1: for current_age <= end_age build_timeline returns (it does not
\* raise) exactly end_age - current_age + 1 rows, with the ages
\* current_age, current_age + 1, ..., end_age in order, and the first row's
\* cpi_index is 1.0 whether or not inflation is enabled.
C1_RowPerAge ==
    scenario.current_age <= scenario.end_age =>
        /\ pc # "bt_raised"
        /\ pc = "bt_returned" =>
            /\ Len(rows) = scenario.end_age - scenario.current_age + 1
            /\ \A i \in RowIdx : rows[i].age = scenario.current_age + i - 1
            /\ rows[1].cpi_index = One

C1_Witness ==
    /\ pc = "bt_returned"
    /\ scenario.current_age = scenario.end_age
    /\ Len(rows) = 1
    /\ ~scenario.inflation_enabled

PreGrowth(r) ==
    Sub(Sub(Sub(Add(Add(r.start_balance_nominal, r.contributions),
                    r.liquidity_net), r.withdrawals), r.fees), r.taxes)

\* C2: every row satisfies end_balance_nominal = (start + contributions +
\* liquidity_net - withdrawals - fees - taxes) * (1 + nominal_return_pct/100),
\* growth is that pre-growth figure times nominal_return_pct/100, fees are
\* start_balance * fee_pct/100, and taxes are the aggregator's event tax of
\* the age plus, only when enable_taxes, withdrawals * effective rate / 100.
C2_AccountingIdentity ==
    \A i \in RowIdx :
        LET r == rows[i]
            ret == Div(scenario.nominal_return_pct, Hundred)
            evtax == apply_liquidity_events(r.age, liquidity_events).event_taxes
        IN  /\ r.end_balance_nominal = Mul(PreGrowth(r), Add(One, ret))
            /\ r.growth = Mul(PreGrowth(r), ret)
            /\ r.fees = Mul(r.start_balance_nominal,
                            Div(scenario.fee_pct, Hundred))
            /\ r.taxes =
                IF scenario.enable_taxes
                THEN Add(evtax,
                         Mul(r.withdrawals,
                             Div(scenario.effective_tax_rate_pct, Hundred)))
                ELSE evtax

C2_Witness ==
    \E i \in RowIdx :
        /\ ~scenario.enable_taxes
        /\ Lt(Zero, rows[i].withdrawals)
        /\ Lt(Zero, rows[i].fees)
        /\ Lt(Zero, rows[i].taxes)
        /\ Lt(Zero, rows[i].growth)
        /\ rows[i].contributions # Zero \/ rows[i].liquidity_net # Zero

\* C3: a row with age < retirement_age has no withdrawal and contributes
\* contrib_amount (times 12 when the cadence is Monthly); a row with
\* age >= retirement_age has no contribution.
C3_PhasesSeparated ==
    \A i \in RowIdx :
        LET r == rows[i]
        IN  IF r.age < scenario.retirement_age
            THEN /\ r.withdrawals = Zero
                 /\ r.contributions =
                        IF scenario.contrib_cadence = "Monthly"
                        THEN Mul(scenario.contrib_amount, Twelve)
                        ELSE scenario.contrib_amount
            ELSE r.contributions = Zero

C3_Witness ==
    /\ pc = "bt_returned"
    /\ scenario.contrib_cadence = "Monthly"
    /\ \E i, j \in RowIdx :
        /\ rows[i].age < scenario.retirement_age
        /\ rows[j].age = scenario.retirement_age
        /\ rows[j].withdrawals # Zero

PriorEnd(i) ==
    IF i = 1 THEN scenario.current_balance ELSE rows[i - 1].end_balance_nominal

C5_CpiCompoundsEveryYear ==
    \A i \in RowIdx :
        IF scenario.inflation_enabled
        THEN /\ rows[i].cpi_index =
                    IF i = 1 THEN One
                    ELSE Mul(rows[i - 1].cpi_index,
                             Add(One, Div(scenario.inflation_pct, Hundred)))
             /\ rows[i].end_balance_real =
                    Div(rows[i].end_balance_nominal, rows[i].cpi_index)
        ELSE rows[i].end_balance_real = rows[i].end_balance_nominal

NegativeAges == {rows[i].age : i \in {j \in RowIdx :
                                        Lt(rows[j].end_balance_nominal, Zero)}}

MinOf(S) == CHOOSE x \in S : \A y \in S : x <= y

\* C6: the returned first_shortfall_age is None exactly when no row has a
\* negative end_balance_nominal and is otherwise the smallest age of such a
\* row; once set in the loop it is not changed by a later age.
C6_FirstShortfall ==
    /\ [](pc = "bt_returned" =>
            /\ metrics.first_shortfall_age = first_shortfall_age
            /\ IF NegativeAges = {}
               THEN first_shortfall_age = NoneAge
               ELSE first_shortfall_age = MinOf(NegativeAges))
    /\ [][first_shortfall_age # NoneAge =>
            first_shortfall_age' = first_shortfall_age]_vars

C6_Witness ==
    /\ pc = "bt_returned"
    /\ \E i, j, k \in RowIdx :
        /\ i < j /\ j < k
        /\ Lt(rows[i].end_balance_nominal, Zero)
        /\ Le(Zero, rows[j].end_balance_nominal)
        /\ Lt(rows[k].end_balance_nominal, Zero)
        /\ first_shortfall_age = rows[i].age

----------------------------------------------------------------------------
(* Properties of the calls on an invalid horizon and of the events.        *)

\* C7: with end_age < current_age neither build_timeline nor
\* run_monte_carlo returns a result; both end in an error.
C7_InvalidHorizonNeverReturns ==
    scenario.end_age < scenario.current_age =>
        pc \notin {"bt_returned", "mc_returned"}

EventIdx == 1..Len(liquidity_events)

RemoveAt(sq, i) == SubSeq(sq, 1, i - 1) \o SubSeq(sq, i + 1, Len(sq))

\* The ages the aggregator is asked about, and one on either side.
ProbeAges == 0..(MaxAge + 1)

\* The trials recorded so far agree with the trials over the events evs.
TrialsAgree(evs) ==
    \A k \in 1..Len(terminal_values) :
        LET t == Trial(scenario, evs, returns[k - 1])
        IN  /\ terminal_values[k] = t.terminal
            /\ min_balances[k] = t.min_balance
            /\ all_paths[k] = t.path

\* C8: a disabled event has no effect: apply_liquidity_events returns the
\* same (net, labels, tax) at every age as for the list without the event,
\* build_timeline returns the same rows and every run_monte_carlo trial the
\* same terminal value, minimum and path as without the event.
C8_DisabledEventNoEffect ==
    \A i \in EventIdx :
        ~liquidity_events[i].enabled =>
            LET rest == RemoveAt(liquidity_events, i)
            IN  /\ \A a \in ProbeAges :
                    apply_liquidity_events(a, liquidity_events)
                        = apply_liquidity_events(a, rest)
                /\ pc = "bt_returned" => rows = TimelineRows(scenario, rest)
                /\ pc \in {"mc_run", "mc_returned"} => TrialsAgree(rest)

C8_Witness ==
    /\ pc = "mc_returned"
    /\ Len(terminal_values) = MaxRuns
    /\ Len(liquidity_events) = 2
    /\ \E i \in EventIdx :
        /\ ~liquidity_events[i].enabled
        /\ liquidity_events[i].taxable
        /\ scenario.current_age <= liquidity_events[i].start_age
        /\ liquidity_events[i].start_age <= scenario.end_age

IsPlainOneTime(e) ==
    /\ e.enabled
    /\ ~e.taxable
    /\ e.recurrence = "One-time"
    /\ e.end_age = e.start_age

\* C9 as claimed: an enabled, non-taxable One-time event of amount X at age
\* A raises liquidity_net of the row at age A by exactly X, and leaves
\* liquidity_net and taxes of every row at another age as without the event.
C9_OtherRowsTaxesUnchanged ==
    \A i \in EventIdx :
        IsPlainOneTime(liquidity_events[i]) =>
            LET e == liquidity_events[i]
                base == TimelineRows(scenario, RemoveAt(liquidity_events, i))
            IN  \A k \in RowIdx :
                    IF rows[k].age = e.start_age
                    THEN rows[k].liquidity_net
                            = Add(base[k].liquidity_net, e.amount)
                    ELSE /\ rows[k].liquidity_net = base[k].liquidity_net
                         /\ rows[k].taxes = base[k].taxes

\* C9 (amended): an enabled, non-taxable One-time event of amount X at age
\* A raises liquidity_net of the row at age A by exactly X; at every other
\* age the row's liquidity_net and the aggregator's event tax are as without
\* the event, and the row's taxes are as without the event at every age
\* before A and wherever the withdrawal does not follow the balance or is
\* not taxed (fixed-real method, or taxes disabled).
C9_OneTimeOnlyAtStartAge ==
    \A i \in EventIdx :
        IsPlainOneTime(liquidity_events[i]) =>
            LET e == liquidity_events[i]
                rest == RemoveAt(liquidity_events, i)
                base == TimelineRows(scenario, rest)
            IN  \A k \in RowIdx :
                    IF rows[k].age = e.start_age
                    THEN rows[k].liquidity_net
                            = Add(base[k].liquidity_net, e.amount)
                    ELSE /\ rows[k].liquidity_net = base[k].liquidity_net
                         /\ apply_liquidity_events(rows[k].age,
                                liquidity_events).event_taxes
                            = apply_liquidity_events(rows[k].age,
                                rest).event_taxes
                         /\ (\/ rows[k].age < e.start_age
                             \/ ~scenario.enable_taxes
                             \/ scenario.withdrawal_method # PctMethod)
                                => rows[k].taxes = base[k].taxes

C9_Witness ==
    /\ pc = "bt_returned"
    /\ scenario.enable_taxes
    /\ scenario.withdrawal_method = PctMethod
    /\ \E i \in EventIdx :
        /\ IsPlainOneTime(liquidity_events[i])
        /\ Len(liquidity_events) = 2
        /\ \E j, k \in RowIdx :
            /\ rows[j].age = liquidity_events[i].start_age
            /\ rows[k].age > liquidity_events[i].start_age
            /\ rows[k].age >= scenario.retirement_age
            /\ rows[k].taxes #
                TimelineRows(scenario, RemoveAt(liquidity_events, i))[k].taxes

\* What an enabled recurring event adds to the net of age a.
RecurringShare(e, a) ==
    IF e.start_age <= a /\ a <= e.end_age
    THEN IF e.recurrence = "Monthly" THEN Mul(e.amount, Twelve) ELSE e.amount
    ELSE Zero

\* C10: an enabled recurring event active on the closed interval [A, B]
\* adds 12 * m (Monthly) or m (Annual) to the net of every age in [A, B]
\* and nothing at any other age, in the aggregator and in liquidity_net of
\* every timeline row.
C10_RecurringClosedInterval ==
    \A i \in EventIdx :
        LET e == liquidity_events[i]
            rest == RemoveAt(liquidity_events, i)
        IN  (e.enabled /\ e.recurrence \in {"Annual", "Monthly"}) =>
                /\ \A a \in ProbeAges :
                    apply_liquidity_events(a, liquidity_events).net
                        = Add(apply_liquidity_events(a, rest).net,
                              RecurringShare(e, a))
                /\ \A k \in RowIdx :
                    rows[k].liquidity_net
                        = Add(apply_liquidity_events(rows[k].age, rest).net,
                              RecurringShare(e, rows[k].age))

C10_Witness ==
    /\ pc = "bt_returned"
    /\ Len(liquidity_events) = 1
    /\ liquidity_events[1].enabled
    /\ liquidity_events[1].recurrence = "Monthly"
    /\ liquidity_events[1].amount = Num(-40)
    /\ \E j, k \in RowIdx :
        /\ rows[j].age = liquidity_events[1].end_age
        /\ rows[j].liquidity_net = Num(-480)
        /\ rows[k].age > liquidity_events[1].end_age
        /\ rows[k].liquidity_net = Zero

----------------------------------------------------------------------------
(* Properties of the event tax.                                            *)

\* The amount an event adds at age a, as the claim words it: nothing when
\* disabled or outside [start_age, end_age], a One-time amount at start_age
\* only, a Monthly amount times twelve.
AmountAt(e, a) ==
    IF ~e.enabled \/ a < e.start_age \/ a > e.end_age THEN Zero
    ELSE IF e.recurrence = "One-time"
         THEN IF a = e.start_age THEN e.amount ELSE Zero
         ELSE IF e.recurrence = "Monthly" THEN Mul(e.amount, Twelve)
              ELSE e.amount

TaxOf(e, a) ==
    IF e.taxable /\ AmountAt(e, a)[1] > 0
    THEN Div(Mul(AmountAt(e, a), e.tax_rate), Hundred)
    ELSE Zero

RECURSIVE TaxSum(_, _, _)
TaxSum(evs, a, n) ==
    IF n = 0 THEN Zero ELSE Add(TaxSum(evs, a, n - 1), TaxOf(evs[n], a))

\* C11: the event tax of an age is the sum of annualized amount times
\* tax_rate / 100 over the enabled events contributing at that age that are
\* taxable and whose annualized amount is strictly positive; it is never
\* negative, and it is the event part of the taxes of the row of that age.
C11_EventTaxOnPositiveTaxable ==
    /\ \A a \in ProbeAges :
        LET tax == apply_liquidity_events(a, liquidity_events).event_taxes
        IN  /\ tax = TaxSum(liquidity_events, a, Len(liquidity_events))
            /\ Le(Zero, tax)
    /\ \A k \in RowIdx :
        rows[k].taxes
            = Add(TaxSum(liquidity_events, rows[k].age,
                         Len(liquidity_events)),
                  IF scenario.enable_taxes
                  THEN Mul(rows[k].withdrawals,
                           Div(scenario.effective_tax_rate_pct, Hundred))
                  ELSE Zero)

\* A Monthly taxable credit of 40 is taxed on 480, next to a taxable gift
\* of 60: 240 + 30.
C11_Witness ==
    /\ pc = "bt_returned"
    /\ ~scenario.enable_taxes
    /\ Len(liquidity_events) = 2
    /\ \E i \in EventIdx :
        /\ liquidity_events[i].label = "Event"
        /\ liquidity_events[i].enabled
        /\ liquidity_events[i].taxable
        /\ liquidity_events[i].recurrence = "Monthly"
        /\ liquidity_events[i].amount = Num(40)
    /\ \E k \in RowIdx : rows[k].taxes = Num(270)

----------------------------------------------------------------------------
(* Properties of solve_safe_withdrawal_rate.                               *)

\* C12: with another method than the percentage method the solver returns
\* None at once: it builds no timeline, never enters the search, and writes
\* neither its trace nor the session state.
C12_NotApplicableReturnsNone ==
    /\ [](scenario.withdrawal_method # PctMethod =>
            /\ pc \in {"swr_start", "swr_returned"}
            /\ timelines_built = 0
            /\ debug_info = <<>>
            /\ pc = "swr_returned" => swr_result = ReturnedNone)
    /\ [][scenario.withdrawal_method # PctMethod =>
            /\ swr_debug' = swr_debug
            /\ UNCHANGED <<low, high, best_rate, iteration>>]_vars

C12_Witness ==
    /\ pc = "swr_returned"
    /\ scenario.withdrawal_method = RealMethod
    /\ swr_result = ReturnedNone
    /\ swr_debug = Stored(StaleTrace)
    /\ timelines_built = 0

RECURSIVE Pow2(_)
Pow2(k) == IF k = 0 THEN 1 ELSE 2 * Pow2(k - 1)

Width == Sub(high, low)

\* The last midpoint of the trace found solvent, 0.0 if there is none.
RECURSIVE LastSolvent(_, _)
LastSolvent(trace, n) ==
    IF n = 0 THEN Zero
    ELSE IF trace[n].result = "solvent" THEN trace[n].mid
         ELSE LastSolvent(trace, n - 1)

SolverEnded == pc \in {"swr_returned", "swr_raised"}

\* C13: under the percentage method the solver ends; it has built one
\* timeline per iteration and at most max_iterations of them; after k
\* iterations high - low is 20 / 2^k; it goes on only while the width is not
\* below tolerance, and returns after the first iteration that brings the
\* width below tolerance (the 11th for tolerance 0.01) or when
\* max_iterations iterations are done; the rate returned is the last
\* midpoint found solvent, 0.0 if none was (as with max_iterations = 0).
C13_SolverTerminates ==
    /\ <>SolverEnded
    /\ []((scenario.withdrawal_method = PctMethod /\ pc # "swr_start") =>
            /\ timelines_built = iteration
            /\ iteration <= max_iterations
            /\ Width = Div(SearchHigh, Num(Pow2(iteration)))
            /\ (pc = "swr_loop" /\ iteration > 0) => ~Lt(Width, tolerance)
            /\ pc = "swr_returned" =>
                /\ \/ iteration = max_iterations
                   \/ /\ iteration > 0
                      /\ Lt(Width, tolerance)
                      /\ iteration > 1 => ~Lt(Mul(Num(2), Width), tolerance)
                /\ (tolerance = DefaultTolerance /\ max_iterations >= 11)
                        => iteration = 11
                /\ swr_result
                    = Returned(LastSolvent(debug_info, Len(debug_info)))
                /\ max_iterations = 0 => swr_result = Returned(Zero))

\* The search with the defaults ends after its 11th iteration, having met
\* solvent and insolvent midpoints.
C13_Witness ==
    /\ pc = "swr_returned"
    /\ tolerance = DefaultTolerance
    /\ max_iterations = DefaultMaxIterations
    /\ iteration = 11
    /\ \E i, j \in 1..Len(debug_info) :
        /\ debug_info[i].result = "solvent"
        /\ debug_info[j].result = "negative"
    /\ swr_result # Returned(Zero)

RECURSIVE MaxAbsBalance(_, _)
MaxAbsBalance(rws, n) ==
    IF n = 0 THEN Zero
    ELSE LET r == rws[n]
             a == <<Abs(r.start_balance_nominal[1]),
                    r.start_balance_nominal[2]>>
             b == <<Abs(r.end_balance_nominal[1]), r.end_balance_nominal[2]>>
             m == MaxAbsBalance(rws, n - 1)
             ab == IF Le(a, b) THEN b ELSE a
         IN  IF Le(ab, m) THEN m ELSE ab

\* The timeline of the scenario with the returned rate as withdrawal_pct.
ReturnedTimeline ==
    TimelineRows(TestScenario(scenario, swr_result.rate), liquidity_events)

\* C14: the rate the solver returns, fed back into build_timeline as
\* withdrawal_pct (of a scenario build_timeline accepts), yields a minimum
\* end_balance_nominal that is >= 0, up to tolerance times the largest
\* balance of that timeline.
C14_ReturnedRateSolvent ==
    (/\ pc = "swr_returned"
     /\ swr_result.kind = "float"
     /\ scenario.current_age <= scenario.end_age) =>
        Le(Neg(Mul(tolerance,
                   MaxAbsBalance(ReturnedTimeline, Len(ReturnedTimeline)))),
           MinEndBalance(ReturnedTimeline))

\* Rates, in percent, at which the timeline is probed.
ProbeRates == {Num(5), Num(10), Num(15), Num(20), Num(25), Num(40)}

SolverReturnedRate ==
    /\ pc = "swr_returned"
    /\ swr_result.kind = "float"
    /\ scenario.current_age <= scenario.end_age

\* C15 as claimed: every rate above the returned rate by more than
\* tolerance yields a negative minimum end_balance_nominal.
C15_EveryHigherRateInsolvent ==
    SolverReturnedRate =>
        \A p \in ProbeRates :
            Lt(Add(swr_result.rate, tolerance), p) =>
                Lt(MinBalanceAt(scenario, liquidity_events, p), Zero)

\* C15 (amended): when the search has stopped on the tolerance test, the
\* returned rate is the lower end of an interval narrower than tolerance
\* whose upper end is 20 or a tested rate with a negative minimum, and
\* every rate above it by more than tolerance and not above 20 yields a
\* negative minimum end_balance_nominal.
C15_MaximalWithinSearchRange ==
    (SolverReturnedRate /\ Converged(low, high, tolerance)) =>
        /\ swr_result.rate = low
        /\ Lt(Sub(high, swr_result.rate), tolerance)
        /\ high # SearchHigh =>
                Lt(MinBalanceAt(scenario, liquidity_events, high), Zero)
        /\ \A p \in ProbeRates :
                (Lt(Add(swr_result.rate, tolerance), p) /\ Le(p, SearchHigh))
                    => Lt(MinBalanceAt(scenario, liquidity_events, p), Zero)

\* The default search has closed in on a rate strictly inside (0, 20):
\* the rates 10, 15 and 20 are insolvent, the rate returned is not.
C15_Witness ==
    /\ SolverReturnedRate
    /\ tolerance = DefaultTolerance
    /\ Converged(low, high, tolerance)
    /\ Lt(Num(5), swr_result.rate)
    /\ Lt(swr_result.rate, Num(10))
    /\ Lt(MinBalanceAt(scenario, liquidity_events, Num(10)), Zero)
    /\ Le(Zero, MinBalanceAt(scenario, liquidity_events, swr_result.rate))

----------------------------------------------------------------------------
(* Properties of run_monte_carlo.                                          *)

\* C16: a call of run_monte_carlo returns what every earlier call with the
\* same scenario, events, trial count and seed returned, whatever calls
\* were made in between.
C16_SameInputsSameResult ==
    pc = "mc_returned" =>
        \A e \in mc_log : e.inputs = CallInputs => e.result = mc_result

\* A call has returned after an equal call and, in between or before, a
\* call with another seed that returned something else.
C16_Witness ==
    /\ pc = "mc_returned"
    /\ runs = MaxRuns
    /\ \E e \in mc_log : e.inputs = CallInputs
    /\ \E e \in mc_log :
        /\ e.inputs.seed # seed
        /\ e.inputs.scenario = scenario
        /\ e.inputs.runs = runs
        /\ e.result # mc_result

TrialIdx == 1..Len(trial_rows)

\* The balance the withdrawal of the i-th simulated year is a share of.
TrialPriorEnd(i) ==
    IF i = 1 THEN scenario.current_balance
    ELSE trial_rows[i - 1].end_balance_nominal

\* C18: under the percentage method the withdrawal of every simulated year
\* at or after retirement_age is the prior year's end balance times
\* withdrawal_pct / 100, whatever withdrawal_frequency is, as in
\* build_timeline.
C18_McPctWithdrawalIsAnnual ==
    \A i \in TrialIdx :
        (/\ scenario.withdrawal_method = PctMethod
         /\ trial_rows[i].age >= scenario.retirement_age) =>
            /\ trial_rows[i].withdrawals
                = Mul(TrialPriorEnd(i), Div(scenario.withdrawal_pct, Hundred))
            /\ trial_rows[i].withdrawals
                = Withdrawals(scenario, trial_rows[i].age, TrialPriorEnd(i),
                              trial_rows[i].cpi_index)

\* C19: the price index of every simulated year is build_timeline's
\* cpi_index of that age, and with inflation_enabled false the fixed-real
\* withdrawal is the unindexed amount and every real path value is the
\* nominal end balance.
C19_McInflationAsTimeline ==
    \A i \in TrialIdx :
        LET r == trial_rows[i]
            unindexed == IF scenario.withdrawal_frequency = "Monthly"
                         THEN Mul(scenario.withdrawal_real_amount, Twelve)
                         ELSE scenario.withdrawal_real_amount
        IN  /\ r.cpi_index
                = TimelineRows(scenario, liquidity_events)[i].cpi_index
            /\ ~scenario.inflation_enabled =>
                /\ r.end_balance_real = r.end_balance_nominal
                /\ (/\ scenario.withdrawal_method = RealMethod
                    /\ r.age >= scenario.retirement_age)
                        => r.withdrawals = unindexed

\* terminal_nominal of build_timeline's metrics for the inputs of the call.
TimelineTerminal ==
    LET rws == TimelineRows(scenario, liquidity_events)
    IN  rws[Len(rws)].end_balance_nominal

\* C17: with return_stdev_pct = 0 every trial ends with build_timeline's
\* terminal_nominal, and so do the median and the 10th and 90th percentile
\* of the terminal balances.
C17_ZeroVolatilityIsTimeline ==
    (/\ scenario.return_stdev_pct = Zero
     /\ scenario.current_age <= scenario.end_age) =>
        /\ \A k \in 1..Len(terminal_values) :
                terminal_values[k] = TimelineTerminal
        /\ pc = "mc_returned" =>
                /\ mc_result.median_terminal = TimelineTerminal
                /\ mc_result.p10_terminal = TimelineTerminal
                /\ mc_result.p90_terminal = TimelineTerminal

\* The price index of the simulated year y (lines 354 and 412).
RECURSIVE McCpi(_)
McCpi(y) ==
    IF y = 1 THEN One
    ELSE Mul(McCpi(y - 1), Add(One, Div(scenario.inflation_pct, Hundred)))

\* The nominal end balance behind the y-th value of the path of trial k.
NominalAt(k, y) == Mul(all_paths[k][y], McCpi(y))

NoShortfall(k) ==
    /\ Le(Zero, scenario.current_balance)
    /\ \A y \in 1..Len(all_paths[k]) : Le(Zero, NominalAt(k, y))

\* C20: probability_no_shortfall is the number of trials whose starting
\* balance and end-of-year nominal balances are all >= 0, divided by the
\* number of trials; it lies in [0, 1]; a trial that was negative at some
\* age counts as a shortfall even if it ends non-negative.
C20_ProbabilityCountsMinima ==
    pc = "mc_returned" =>
        /\ mc_result.probability_no_shortfall
            = Norm(Cardinality({k \in 1..runs : NoShortfall(k)}), runs)
        /\ Le(Zero, mc_result.probability_no_shortfall)
        /\ Le(mc_result.probability_no_shortfall, One)
        /\ \A k \in 1..runs :
            (\E y \in 1..Len(all_paths[k]) : Lt(NominalAt(k, y), Zero))
                => Lt(min_balances[k], Zero)

\* Two trials were run; one of them fell below zero and ended above it, and
\* it is not among the trials counted.
C20_Witness ==
    /\ pc = "mc_returned"
    /\ runs = 2
    /\ Lt(mc_result.probability_no_shortfall, One)
    /\ \E k \in 1..runs :
        /\ Lt(min_balances[k], Zero)
        /\ Lt(Zero, terminal_values[k])

----------------------------------------------------------------------------
(* Properties of the trials of run_monte_carlo.                            *)

\* What trial k ends with when the trials run one after the other.
SequentialTrial(k) == Trial(scenario, liquidity_events, returns[k])

\* The statistics of lines 418-441 over the trials taken in index order.
SequentialResult ==
    LET terms == [k \in 1..runs |-> SequentialTrial(k - 1).terminal]
        mins == [k \in 1..runs |-> SequentialTrial(k - 1).min_balance]
        paths == [k \in 1..runs |-> SequentialTrial(k - 1).path]
    IN  [probability_no_shortfall |-> Norm(CountNonNegative(mins), runs),
         median_terminal |-> Percentile(terms, 50),
         p10_terminal |-> Percentile(terms, 10),
         p90_terminal |-> Percentile(terms, 90),
         p10_path |-> PercentilePath(paths, 10),
         p50_path |-> PercentilePath(paths, 50),
         p90_path |-> PercentilePath(paths, 90)]

\* C21: the trials are independent.  Whatever the order or interleaving in
\* which the trials run, a trial starts from current_balance and price
\* index 1.0, ends with the terminal value, minimum balance and path it has
\* when the trials run one after the other (a function of its own row of
\* the grid), and the aggregate statistics are those of the sequential run.
C21_TrialsIndependent ==
    /\ \A k \in DOMAIN trials :
        /\ (trials[k].status = "running"
                /\ trials[k].age = scenario.current_age) =>
                    /\ trials[k].balance_nominal = scenario.current_balance
                    /\ trials[k].cpi_index = One
        /\ trials[k].status = "done" =>
            /\ trials[k].balance_nominal = SequentialTrial(k).terminal
            /\ trials[k].min_balance = SequentialTrial(k).min_balance
            /\ trials[k].path = SequentialTrial(k).path
    /\ pc = "mc_returned" => mc_result = SequentialResult

\* Two trials with different outcomes have ended in the order opposite to
\* their indices and the call has returned.
C21_Witness ==
    /\ pc = "mc_returned"
    /\ runs = 2
    /\ trials[0].balance_nominal # trials[1].balance_nominal
    /\ terminal_values = <<trials[1].balance_nominal,
                           trials[0].balance_nominal>>
    /\ Len(trials[0].path) >= 2

----------------------------------------------------------------------------
(* Effects of the calls outside their return values.                       *)

\* The arguments of the call are left as they were.
ArgumentsKept ==
    /\ scenario' = scenario
    /\ liquidity_events' = liquidity_events

\* The state of the process outside the call is left as it was: numpy's
\* generator and the session state.
ProcessStateKept ==
    /\ np_random_state' = np_random_state
    /\ swr_debug' = swr_debug

\* C22: the calls are pure.  No step of a call changes the scenario, the
\* events, the process-wide random generator or the session state.
C22_CallsArePure == [][ArgumentsKept /\ ProcessStateKept]_vars

----------------------------------------------------------------------------
(* The default scenario.                                                   *)

\* C23: for the default scenario (balance 100000, ages 30, 65, 95, $500 a
\* month, 7% return, 0.5% fee, 4% withdrawal, no events, no taxes) the end
\* balance of every row of the ages 30 to 65 is strictly positive.
C23_DefaultAccumulationPositive ==
    (/\ scenario = DefaultScenario
     /\ liquidity_events = <<>>
     /\ pc \in {"encl_loop", "encl_returned"}
     /\ age - 1 \in CURRENT_AGE..RETIREMENT_AGE) => encl[1] > 0

\* The row of age 65 of the default scenario has been computed, and its
\* end balance is known to within two thousand dollars.
C23_Witness ==
    /\ scenario = DefaultScenario
    /\ liquidity_events = <<>>
    /\ pc = "encl_loop"
    /\ age - 1 = RETIREMENT_AGE
    /\ encl[1] > 0
    /\ encl[2] - encl[1] < 2000

----------------------------------------------------------------------------
(* The balance carried through build_timeline's rows.                      *)

\* C24: the balance is carried forward without gaps.  The first row starts
\* from current_balance, every later row starts from the previous row's
\* end_balance_nominal, and that start balance is the prior-year end
\* balance a percentage withdrawal is taken from.
C24_BalanceCarriedForward ==
    /\ \A i \in RowIdx :
        /\ i = 1 => rows[i].start_balance_nominal = scenario.current_balance
        /\ i > 1 => rows[i].start_balance_nominal
                        = rows[i - 1].end_balance_nominal
        /\ (/\ scenario.withdrawal_method = PctMethod
            /\ rows[i].age >= scenario.retirement_age) =>
                rows[i].withdrawals
                    = Mul(rows[i].start_balance_nominal,
                          Div(scenario.withdrawal_pct, Hundred))
    /\ pc = "bt_loop" =>
        /\ prior_year_end_balance = balance_nominal
        /\ balance_nominal = IF rows = <<>> THEN scenario.current_balance
                             ELSE rows[Len(rows)].end_balance_nominal

\* Three rows with three different start balances, the last two with a
\* percentage withdrawal.
C24_Witness ==
    /\ Len(rows) = 3
    /\ scenario.withdrawal_method = PctMethod
    /\ rows[2].age >= scenario.retirement_age
    /\ rows[2].withdrawals # Zero
    /\ rows[1].start_balance_nominal # rows[2].start_balance_nominal
    /\ rows[2].start_balance_nominal # rows[3].start_balance_nominal
    /\ rows[3].withdrawals # rows[2].withdrawals

----------------------------------------------------------------------------
(* The bounds of the search of solve_safe_withdrawal_rate.                 *)

\* Every row of the timeline just built ends at or above zero.
TestedSolvent ==
    \A i \in RowIdx : Le(Zero, rows[i].end_balance_nominal)

\* The rate was a midpoint of the search and was found solvent.
FoundSolvent(rate) ==
    \E i \in 1..Len(debug_info) :
        debug_info[i].mid = rate /\ debug_info[i].result = "solvent"

\* C25: throughout the search 0 <= low <= high <= 20 and best_rate = low;
\* an iteration moves exactly one bound to the midpoint, low (and
\* best_rate) when the midpoint's timeline never ends a year below zero
\* and high otherwise; the returned rate is in [0, 20) and is 0.0 or a
\* midpoint that was tested and found solvent.
C25_SearchBounds ==
    /\ [](/\ Le(Zero, low) /\ Le(low, high) /\ Le(high, SearchHigh)
          /\ best_rate = low
          /\ swr_result.kind = "float" =>
                /\ swr_result.rate = best_rate
                /\ Le(Zero, swr_result.rate)
                /\ Lt(swr_result.rate, SearchHigh)
                /\ swr_result.rate = Zero \/ FoundSolvent(swr_result.rate))
    /\ [][iteration' # iteration =>
            /\ iteration' = iteration + 1
            /\ mid = Div(Add(low, high), Num(2))
            /\ \/ /\ TestedSolvent
                  /\ low' = mid /\ best_rate' = mid /\ high' = high
               \/ /\ ~TestedSolvent
                  /\ high' = mid /\ low' = low /\ best_rate' = best_rate]_vars

\* The search has moved each bound at least once and a rate above zero was
\* returned.
C25_Witness ==
    /\ pc = "swr_returned"
    /\ swr_result.kind = "float"
    /\ Lt(Zero, swr_result.rate)
    /\ Lt(high, SearchHigh)
    /\ iteration >= 2

----------------------------------------------------------------------------
(* The solver against the reference of test_swr.py.                        *)

\* Someone already retired, on a horizon of at least one year.
RetirementOnly ==
    /\ scenario.current_age = scenario.retirement_age
    /\ scenario.current_age <= scenario.end_age
    /\ scenario.withdrawal_method = PctMethod
    /\ Le(Zero, scenario.current_balance)
    /\ liquidity_events = <<>>
    /\ ~scenario.enable_taxes

\* The arguments the reference is run with: rates as decimals.
ReferenceArgs ==
    [initial_balance |-> scenario.current_balance,
     years |-> NumYears(scenario),
     return_rate |-> Div(scenario.nominal_return_pct, Hundred),
     fee_rate |-> Div(scenario.fee_pct, Hundred),
     tolerance |-> Div(tolerance, Hundred),
     max_iterations |-> max_iterations]

\* The bounds of the reference that stand for the solver's: a hundredth.
ReferenceBounds ==
    [low |-> Div(low, Hundred), high |-> Div(high, Hundred),
     best_rate |-> Div(best_rate, Hundred)]

SameVerdict(mine, theirs) ==
    \/ mine = "solvent" /\ theirs = "SOLVENT"
    \/ mine = "negative" /\ theirs = "NEGATIVE"

\* C26: for a retirement-only scenario the solver visits the midpoints and
\* verdicts of find_safe_withdrawal_rate of test_swr.py (run on the same
\* balance, number of years, return and fee, and a hundredth of the
\* tolerance), in the same order, and returns 100 times its rate.  The two
\* searches start from matching bounds; every iteration of the solver is
\* the iteration of the reference from the matching bounds, with the same
\* midpoint, verdict and decision to stop; both run at most
\* max_iterations iterations and return best_rate.
C26_SolverMatchesReference ==
    /\ [](RetirementOnly =>
            /\ (pc = "swr_loop" /\ iteration = 0)
                    => ReferenceBounds = ReferenceStart
            /\ iteration <= ReferenceArgs.max_iterations
            /\ pc = "swr_returned" =>
                /\ swr_result = Returned(Mul(ReferenceBounds.best_rate,
                                              Hundred))
                /\ \/ iteration = ReferenceArgs.max_iterations
                   \/ Lt(Sub(ReferenceBounds.high, ReferenceBounds.low),
                         ReferenceArgs.tolerance))
    /\ [][(RetirementOnly /\ iteration' # iteration) =>
            LET r == ReferenceIterate(ReferenceBounds, ReferenceArgs)
                line == debug_info'[Len(debug_info')]
            IN  /\ ReferenceBounds' = [low |-> r.low, high |-> r.high,
                                       best_rate |-> r.best_rate]
                /\ line.mid = Mul(r.mid, Hundred)
                /\ SameVerdict(line.result, r.result)
                /\ Len(debug_info') = iteration'
                /\ r.stop <=> (pc' = "swr_store")]_vars

\* A search over two years or more that met a solvent and an insolvent
\* midpoint has returned.
C26_Witness ==
    /\ RetirementOnly
    /\ pc = "swr_returned"
    /\ NumYears(scenario) >= 2
    /\ \E i, j \in 1..Len(debug_info) :
        /\ debug_info[i].result = "solvent"
        /\ debug_info[j].result = "negative"

----------------------------------------------------------------------------
(* The caller's scenario during the search.                                *)

\* C27: the solver never modifies the caller's scenario or event list.
\* No step of a call changes them, while the timelines are built with the
\* rate under test in place of the scenario's withdrawal_pct.
C27_CallerScenarioKept ==
    /\ [][scenario' = scenario /\ liquidity_events' = liquidity_events]_vars
    /\ []((caller = "solver" /\ scenario.withdrawal_method = PctMethod) =>
            \A i \in RowIdx :
                rows[i].age >= scenario.retirement_age =>
                    rows[i].withdrawals
                        = Mul(IF i = 1 THEN scenario.current_balance
                              ELSE rows[i - 1].end_balance_nominal,
                              Div(mid, Hundred)))

\* The search has returned after testing two rates, neither of them the
\* scenario's own withdrawal_pct, and withdrawals were taken at the last.
C27_Witness ==
    /\ pc = "swr_returned"
    /\ swr_result.kind = "float"
    /\ Len(debug_info) >= 2
    /\ \A i \in 1..Len(debug_info) :
            debug_info[i].mid # scenario.withdrawal_pct
    /\ \E i \in RowIdx : rows[i].withdrawals # Zero

----------------------------------------------------------------------------
(* Saved scenarios: the Save Scenario button of the dashboard and the      *)
(* scenarios page.                                                         *)

\* Everything the engine's calls work on.
engineVars == <<inputVars, pc, loopVars, btVars, mcVars, callVars, swrVars,
                trials, encl>>

\* No call of the engine is under way.
EngineIdle ==
    /\ scenario = DefaultScenario
    /\ liquidity_events = <<>>
    /\ runs = 1
    /\ seed = 42
    /\ pc = "ui"
    /\ InitLocals
    /\ SolverIdle
    /\ trials = <<>>
    /\ encl = <<0, 0>>

\* Line 1338: the number of scenarios the Save handler lets the file hold.
MaxSavedScenarios == 5

\* The names typed into the Scenario Name field, and what is saved under a
\* name: the sidebar's inputs at the time of the save.
ScenarioNames == {"A", "B", "C", "D", "E", "F"}
Contents == {"v1", "v2"}

\* saved_scenarios[name] = scenario (line 1365).
Put(d, name, c) ==
    [n \in DOMAIN d \cup {name} |-> IF n = name THEN c ELSE d[n]]

\* del saved_scenarios[name] (line 868).
Without(d, name) == [n \in DOMAIN d \ {name} |-> d[n]]

\* Lines 1024, 1337-1367: Save Scenario on the dashboard, on the dict that
\* load_scenarios has just read from the file.
SaveScenario(name, c) ==
    /\ page = "dashboard"
    /\ IF /\ Cardinality(DOMAIN scenarios_file) >= MaxSavedScenarios
          /\ name \notin DOMAIN scenarios_file
       THEN /\ sidebar_message' = "warning"
            /\ UNCHANGED scenarios_file
       ELSE /\ scenarios_file' = Put(scenarios_file, name, c)
            /\ sidebar_message' = "success"
    /\ UNCHANGED <<engineVars, page, session_saved, planning_end_age,
                   events_data, events_draft, edited_df>>

\* Lines 1370-1372, 762-765: Manage Scenarios opens the scenarios page,
\* which reads the file only when the session holds no saved_scenarios.
ManageScenarios ==
    /\ page = "dashboard"
    /\ page' = "scenarios"
    /\ session_saved' =
           IF session_saved.present
           THEN session_saved
           ELSE [present |-> TRUE, dict |-> scenarios_file]
    /\ sidebar_message' = "none"
    /\ UNCHANGED <<engineVars, scenarios_file, planning_end_age,
                   events_data, events_draft, edited_df>>

\* Lines 864-875: Delete Scenario with the row of name selected.
DeleteScenario(name) ==
    /\ page = "scenarios"
    /\ session_saved.present
    /\ name \in DOMAIN session_saved.dict
    /\ session_saved' =
           [present |-> TRUE, dict |-> Without(session_saved.dict, name)]
    /\ scenarios_file' = Without(session_saved.dict, name)
    /\ UNCHANGED <<engineVars, page, sidebar_message, planning_end_age,
                   events_data, events_draft, edited_df>>

\* Lines 878-881: Back to Dashboard.
ScenariosBack ==
    /\ page = "scenarios"
    /\ page' = "dashboard"
    /\ UNCHANGED <<engineVars, scenarios_file, session_saved,
                   sidebar_message, planning_end_age, events_data,
                   events_draft, edited_df>>

NextScenarios ==
    \/ \E name \in ScenarioNames : \E c \in Contents : SaveScenario(name, c)
    \/ ManageScenarios
    \/ \E name \in ScenarioNames : DeleteScenario(name)
    \/ ScenariosBack

\* The files of at most MaxSavedScenarios scenarios.
ScenarioFiles ==
    {[n \in S |-> "v1"] :
        S \in {T \in SUBSET ScenarioNames :
                  Cardinality(T) <= MaxSavedScenarios}}

\* A session starts on the dashboard with some scenarios in the file.
InitScenarios ==
    /\ EngineIdle
    /\ page = "dashboard"
    /\ scenarios_file \in ScenarioFiles
    /\ session_saved = [present |-> FALSE, dict |-> NoScenarios]
    /\ sidebar_message = "none"
    /\ planning_end_age = 0
    /\ events_data = <<>>
    /\ events_draft = <<>>
    /\ edited_df = <<>>

SpecScenarios == InitScenarios /\ [][NextScenarios]_vars

\* A Save Scenario step, and a Delete Scenario step.
SaveStep == page = "dashboard" /\ sidebar_message' # "none"
DeleteStep == page = "scenarios" /\ session_saved' # session_saved

\* The entries of d2 that are not entries of d1, by name.
Changed(d1, d2) ==
    {n \in DOMAIN d1 \cup DOMAIN d2 :
        \/ n \notin DOMAIN d1
        \/ n \notin DOMAIN d2
        \/ d1[n] # d2[n]}

\* C28: starting from at most 5 saved scenarios, the file never holds more
\* than 5; a save under a new name while 5 are stored is refused and leaves
\* the saved set as it was, a save under a stored name changes that entry
\* only and keeps the count, and a delete removes the selected entry and
\* nothing else.
C28_SavedSetBounded ==
    /\ [](Cardinality(DOMAIN scenarios_file) <= MaxSavedScenarios)
    /\ [][/\ (SaveStep /\ sidebar_message' = "warning")
                => scenarios_file' = scenarios_file
          /\ (SaveStep /\ Cardinality(DOMAIN scenarios_file) = 5)
                => DOMAIN scenarios_file' = DOMAIN scenarios_file
          /\ SaveStep => Cardinality(Changed(scenarios_file,
                                             scenarios_file')) <= 1
          /\ DeleteStep
                => \E name \in DOMAIN session_saved.dict :
                      /\ session_saved'.dict =
                             Without(session_saved.dict, name)
                      /\ scenarios_file' =
                             Without(scenarios_file, name)]_vars

----------------------------------------------------------------------------
(* The liquidity events page: the editor, Save Events and Reset.           *)

\* The rows the editor may hold at once.
MaxEditorRows == 1

\* Lines 139-140.
HOUSE_SALE_AGE == 66
HOUSE_SALE_NET == 250000

\* A row of the table: the cells the Save handler's checks read. An empty
\* End Age cell is NoneAge.
MkRow(typ, lbl, ages, amt, rec) ==
    [type |-> typ, label |-> lbl, start_age |-> ages[1],
     end_age |-> ages[2], amount |-> amt, recurrence |-> rec]

\* Lines 537-551.
create_default_events ==
    <<MkRow("Credit", "Sell House", <<HOUSE_SALE_AGE, HOUSE_SALE_AGE>>,
            HOUSE_SALE_NET, "One-time")>>

\* str.lower on the type names.
Lower(typ) ==
    CASE typ = "Debit" -> "debit"
      [] typ = "Credit" -> "credit"
      [] OTHER -> typ

\* Lines 572-582: the one row shown for an empty draft.
TemplateRow(end) == MkRow("Credit", "", <<65, end>>, 0, "One-time")

\* Lines 589-605: a row as the editor shows it.
DisplayRow(r) ==
    [r EXCEPT !.end_age = IF r.recurrence = "One-time"
                          THEN r.start_age
                          ELSE r.end_age,
              !.amount = IF Lower(r.type) = "debit"
                         THEN -Abs(r.amount)
                         ELSE Abs(r.amount)]

\* Lines 566-605: the table handed to st.data_editor.
Display(draft, end) ==
    IF draft = <<>>
    THEN <<DisplayRow(TemplateRow(end))>>
    ELSE [i \in 1..Len(draft) |-> DisplayRow(draft[i])]

\* Lines 669-678, 694-695: _parse_number on an age cell, then int.
ParseAge(cell, default) == IF cell = NoneAge THEN default ELSE cell

\* The validated row with the amount as it was entered.
ValidatedRowSignKept(r, end) ==
    LET start_age == ParseAge(r.start_age, end)
        end_age == ParseAge(r.end_age, end)
    IN  [r EXCEPT
            !.start_age = start_age,
            !.end_age = IF r.recurrence = "One-time"
                        THEN start_age
                        ELSE IF end_age <= start_age
                             THEN end
                             ELSE end_age]

\* Lines 693-729: the validated row of an edited row.
ValidatedRow(r, end) ==
    LET start_age == ParseAge(r.start_age, end)
        end_age == ParseAge(r.end_age, end)
    IN  [r EXCEPT
            !.start_age = start_age,
            !.end_age = IF r.recurrence = "One-time"
                        THEN start_age
                        ELSE IF end_age <= start_age
                             THEN end
                             ELSE end_age,
            !.amount = IF Lower(r.type) = "debit"
                       THEN -Abs(r.amount)
                       ELSE Abs(r.amount)]

\* Lines 680-730: the rows with a label, validated.
Validated(edited, end) ==
    LET kept == SelectSeq(edited, LAMBDA r : r.label # "")
    IN  [i \in 1..Len(kept) |-> ValidatedRow(kept[i], end)]

\* The user writes row r into line i of the editor, or adds it below.
EditRow(i, r) ==
    /\ page = "liquidity_events"
    /\ i \in 1..(Len(edited_df) + 1)
    /\ i <= MaxEditorRows
    /\ edited_df' = IF i <= Len(edited_df)
                    THEN [edited_df EXCEPT ![i] = r]
                    ELSE Append(edited_df, r)
    /\ UNCHANGED <<engineVars, page, scenarios_file, session_saved,
                   sidebar_message, planning_end_age, events_data,
                   events_draft>>

\* The user deletes line i of the editor.
RemoveRow(i) ==
    /\ page = "liquidity_events"
    /\ i \in 1..Len(edited_df)
    /\ edited_df' = [k \in 1..(Len(edited_df) - 1) |->
                        IF k < i THEN edited_df[k] ELSE edited_df[k + 1]]
    /\ UNCHANGED <<engineVars, page, scenarios_file, session_saved,
                   sidebar_message, planning_end_age, events_data,
                   events_draft>>

\* Lines 666-736: Save Events. After the rerun the editor keeps the user's
\* cells or shows the new draft.
SaveEvents ==
    /\ page = "liquidity_events"
    /\ events_data' = Validated(edited_df, planning_end_age)
    /\ events_draft' = events_data'
    /\ edited_df' \in {edited_df, Display(events_draft', planning_end_age)}
    /\ UNCHANGED <<engineVars, page, scenarios_file, session_saved,
                   sidebar_message, planning_end_age>>

\* Lines 738-741: Reset.
ResetEvents ==
    /\ page = "liquidity_events"
    /\ events_draft' = events_data
    /\ edited_df' \in {edited_df, Display(events_draft', planning_end_age)}
    /\ UNCHANGED <<engineVars, page, scenarios_file, session_saved,
                   sidebar_message, planning_end_age, events_data>>

\* The cells a user types: each type of the Type column, and a lower-case
\* one, with an amount of either sign; start and end ages in and out of
\* order, the end age also left empty, for a One-time and a recurring
\* event; and a row without a label.
EditorRows ==
    {MkRow(typ, "rent", <<60, 70>>, amt, "Annual") :
        typ \in {"Credit", "Debit", "debit"}, amt \in {-5, 5}}
    \cup {MkRow("Credit", "rent", ages, 5, rec) :
             ages \in {<<60, 70>>, <<70, 60>>, <<100, NoneAge>>},
             rec \in {"One-time", "Annual"}}
    \cup {MkRow("Debit", "", <<60, 70>>, 5, "Annual")}

NextEventsPage ==
    \/ \E i \in 1..MaxEditorRows : \E r \in EditorRows : EditRow(i, r)
    \/ \E i \in 1..MaxEditorRows : RemoveRow(i)
    \/ SaveEvents
    \/ ResetEvents

\* Lines 1218-1221, 560-564: the page opens on the default events with the
\* sidebar's end age.
InitEventsPage ==
    /\ EngineIdle
    /\ page = "liquidity_events"
    /\ scenarios_file = NoScenarios
    /\ session_saved = [present |-> FALSE, dict |-> NoScenarios]
    /\ sidebar_message = "none"
    /\ planning_end_age \in {END_AGE, 110}
    /\ events_data = create_default_events
    /\ events_draft = events_data
    /\ edited_df = Display(events_draft, planning_end_age)

SpecEventsPage == InitEventsPage /\ [][NextEventsPage]_vars

\* The stored events.
StoredEvents == {events_data[i] : i \in 1..Len(events_data)}

\* C29: every stored event's amount has the sign of its type, <= 0 for a
\* Debit in any letter case and >= 0 otherwise, after any sequence of
\* edits, Save Events and Reset.
C29_SignMatchesType ==
    \A e \in StoredEvents :
        IF Lower(e.type) = "debit" THEN e.amount <= 0 ELSE e.amount >= 0

\* A positive amount entered for a lower-case debit was saved as negative.
C29_Witness ==
    /\ Len(edited_df) = 1 /\ Len(events_data) = 1
    /\ edited_df[1].type = "debit"
    /\ edited_df[1].amount = 5
    /\ events_data[1].type = "debit"
    /\ events_data[1].amount = -5

\* C30: every stored event has start_age <= end_age, with end_age equal to
\* start_age for a One-time event.
C30_AgesOrdered ==
    \A e \in StoredEvents :
        /\ e.start_age <= e.end_age
        /\ e.recurrence = "One-time" => e.end_age = e.start_age

====
